---- MODULE Spec2Model ----
(***************************************************************************)
(* A model of JermCAD's document resolution (stamp expansion, clone        *)
(* resolution, property-reference resolution, arithmetic expressions) and  *)
(* of its render pipeline (dependency collection, solid creation, hiding   *)
(* of dependencies).                                                       *)
(*                                                                         *)
(* JavaScript values are modelled as tagged records:                       *)
(*   number   [t |-> "num", n |-> numerator, d |-> denominator]            *)
(*   string   [t |-> "str", s |-> sequence of atoms]                       *)
(*   boolean  [t |-> "bool", b |-> TRUE/FALSE]                             *)
(*   array    [t |-> "arr", a |-> sequence of values]                      *)
(*   object   [t |-> "obj", o |-> sequence of [k |-> key, v |-> value]]    *)
(*            (own properties, in insertion order)                         *)
(*   undefined [t |-> "undef"]                                             *)
(* and an exception that unwinds the JavaScript stack as [t |-> "raise"].  *)
(*                                                                         *)
(* A JavaScript string is a sequence of atoms.  An atom is a single        *)
(* character (a digit, an operator, "_", ".", " ", "$", ";") or a maximal  *)
(* run of letters ("base", "center").  No string of the model holds two    *)
(* adjacent letter atoms, so equal JavaScript strings are equal sequences. *)
(* Array indices are 1-based here and 0-based in the source.               *)
(***************************************************************************)
EXTENDS Integers, Sequences, FiniteSets, TLC

VARIABLES
    doc,        \* the parsed input document (what jsyaml.load returned)
    pc,         \* position inside parseYAML
    data,       \* the document as rewritten by the stages run so far
    work,       \* the solids map a pass loop is working on
    pass,       \* pass counter of the running loop
    hasChanges, \* hasChanges flag of the running loop
    stages,     \* the stages parseYAML has completed, in order
    input,      \* the input document object as it is now
    sharedSolids, \* data.solids is the very object input.solids
    sharedWork, \* work is the very object input.solids
    rpc,        \* position inside renderModel
    rdata,      \* what parseYAML returned to renderModel
    processedSolids, \* createSolid's cache: name -> null (in progress) or mesh
    stack,      \* createSolid activation records, innermost last
    todo,       \* solids the second pass of renderModel has still to create
    allMeshes,  \* renderModel's allMeshes, in insertion order
    newModels,  \* renderModel's newModels
    usedAsDependencies, \* renderModel's usedAsDependencies
    scene,      \* meshes currently in the Three.js scene
    models,     \* controls.js: the tracked model list
    applied,    \* log of boolean operations applied by applyBooleanModifier
    renders,    \* number of renderModel calls so far
    currentQuality,  \* qualitySettings.js: the quality the user selected
    forceQuality,    \* qualitySettings.js: the override, or null
    xpc,             \* position inside exportSTL
    originalQuality, \* exportSTL's originalQuality
    btnDisabled,     \* the export button is disabled
    rendered         \* the last renderModel call: its caller and what it read

vars == <<doc, pc, data, work, pass, hasChanges, stages, input, sharedSolids,
          sharedWork, rpc, rdata,
          processedSolids, stack, todo, allMeshes, newModels,
          usedAsDependencies, scene, models, applied, renders, currentQuality,
          forceQuality, xpc, originalQuality, btnDisabled, rendered>>

exportVars == <<currentQuality, forceQuality, xpc, originalQuality, btnDisabled, rendered>>
resolveVars == <<doc, pc, data, work, pass, hasChanges, stages, input, sharedSolids,
                 sharedWork>>
renderVars == <<rpc, rdata, processedSolids, stack, todo, allMeshes, newModels,
                usedAsDependencies, scene, models, applied, renders>>

-----------------------------------------------------------------------------
(* JavaScript values *)

Num(n) == [t |-> "num", n |-> n, d |-> 1]
Str(s) == [t |-> "str", s |-> s]
Bool(b) == [t |-> "bool", b |-> b]
Arr(a) == [t |-> "arr", a |-> a]
Obj(o) == [t |-> "obj", o |-> o]
Undefined == [t |-> "undef"]
Null == [t |-> "null"]
\* The number Infinity (".inf" in YAML): a number that JSON cannot write.
Infinity == [t |-> "inf"]
Raise == [t |-> "raise"]

IsNum(v) == v.t = "num"
IsStr(v) == v.t = "str"
IsArr(v) == v.t = "arr"
IsObj(v) == v.t = "obj"
IsRaise(v) == v.t = "raise"

\* A single-atom string, the usual form of a name or a key.
W(a) == <<a>>

\* JavaScript truthiness (!x is its negation).
Truthy(v) ==
    CASE v.t = "undef" -> FALSE
      [] v.t = "bool" -> v.b
      [] v.t = "num" -> v.n # 0
      [] v.t = "str" -> v.s # <<>>
      [] v.t = "null" -> FALSE
      [] OTHER -> TRUE

\* obj.hasOwnProperty(k)
HasOwn(obj, k) == \E i \in 1..Len(obj.o) : obj.o[i].k = k

\* obj[k] for an own property, undefined otherwise.
Get(obj, k) ==
    IF IsObj(obj) /\ HasOwn(obj, k)
    THEN obj.o[CHOOSE i \in 1..Len(obj.o) : obj.o[i].k = k].v
    ELSE Undefined

\* obj[k] = v : an existing key keeps its position, a new key is appended.
Put(obj, k, v) ==
    IF HasOwn(obj, k)
    THEN Obj([i \in 1..Len(obj.o) |->
                IF obj.o[i].k = k THEN [k |-> k, v |-> v] ELSE obj.o[i]])
    ELSE Obj(Append(obj.o, [k |-> k, v |-> v]))

\* delete obj[k]
Del(obj, k) == Obj(SelectSeq(obj.o, LAMBDA e : e.k # k))

\* A merge in which the first object's values win.
spreadKeepingFirst(a, b) ==
    LET RECURSIVE go(_, _)
        go(acc, i) == IF i > Len(b.o) THEN acc
                      ELSE go(IF HasOwn(acc, b.o[i].k) THEN acc
                              ELSE Put(acc, b.o[i].k, b.o[i].v), i + 1)
    IN go(a, 1)

\* {...a, ...b}
Spread(a, b) ==
    LET RECURSIVE go(_, _)
        go(acc, i) == IF i > Len(b.o) THEN acc
                      ELSE go(Put(acc, b.o[i].k, b.o[i].v), i + 1)
    IN go(a, 1)

\* An object literal from a sequence of <<key, value>> pairs.
O(pairs) == Obj([i \in 1..Len(pairs) |-> [k |-> pairs[i][1], v |-> pairs[i][2]]])

\* Object.keys(obj)
Keys(obj) == [i \in 1..Len(obj.o) |-> obj.o[i].k]

\* An array read that ignores the index.
atFirst(arr, i) == IF IsArr(arr) /\ arr.a # <<>> THEN arr.a[1] ELSE Undefined

\* arr[i] with i 1-based: undefined outside the array.
At(arr, i) == IF IsArr(arr) /\ i \in 1..Len(arr.a) THEN arr.a[i] ELSE Undefined

\* obj[k] for a computed key k of a plain object: an own property, else a
\* member inherited from Object.prototype (a function), else undefined.
ObjectPrototypeKeys ==
    {<<"constructor">>, <<"toString">>, <<"valueOf">>, <<"hasOwnProperty">>}
PropRead(obj, k) ==
    IF IsObj(obj) /\ HasOwn(obj, k) THEN Get(obj, k)
    ELSE IF IsObj(obj) /\ k \in ObjectPrototypeKeys THEN [t |-> "fn"]
    ELSE Undefined

\* deepClone(obj) = JSON.parse(JSON.stringify(obj)): a number that is not
\* finite comes back as null, a property whose value is undefined or a
\* function is dropped, and such an element of an array comes back as null.
Unwritable(v) == v.t \in {"undef", "fn"}
\* A copy that also drops the properties of a solid whose value is null.
cloneDroppingNull(obj) ==
    IF ~IsObj(obj) THEN obj
    ELSE Obj([i \in 1..Len(obj.o) |->
                 [k |-> obj.o[i].k,
                  v |-> IF IsObj(obj.o[i].v)
                        THEN Obj(SelectSeq(obj.o[i].v.o, LAMBDA e : e.v # Null))
                        ELSE obj.o[i].v]])
RECURSIVE deepClone(_)
deepClone(obj) ==
    CASE obj.t = "inf" -> Null
      [] IsArr(obj) -> Arr([i \in 1..Len(obj.a) |->
                               IF Unwritable(obj.a[i]) THEN Null ELSE deepClone(obj.a[i])])
      [] IsObj(obj) ->
             LET kept == SelectSeq(obj.o, LAMBDA e : ~Unwritable(e.v))
             IN Obj([i \in 1..Len(kept) |-> [k |-> kept[i].k, v |-> deepClone(kept[i].v)]])
      [] OTHER -> obj

-----------------------------------------------------------------------------
(* Characters *)

Digits == {"0", "1", "2", "3", "4", "5", "6", "7", "8", "9"}
MathOperatorChars == {"+", "-", "*", "/", "(", ")"}
OtherChars == {"_", ".", " ", "$", ";"}

\* A run of letters.
IsLetters(a) == a \notin Digits \cup MathOperatorChars \cup OtherChars
\* \w of a JavaScript regular expression: [A-Za-z0-9_]
IsWordChar(a) == IsLetters(a) \/ a \in Digits \/ a = "_"
\* [a-zA-Z_]
IsIdStart(a) == IsLetters(a) \/ a = "_"

DigitValue(a) ==
    CASE a = "0" -> 0 [] a = "1" -> 1 [] a = "2" -> 2 [] a = "3" -> 3
      [] a = "4" -> 4 [] a = "5" -> 5 [] a = "6" -> 6 [] a = "7" -> 7
      [] a = "8" -> 8 [] a = "9" -> 9

DigitChar(n) ==
    CASE n = 0 -> "0" [] n = 1 -> "1" [] n = 2 -> "2" [] n = 3 -> "3"
      [] n = 4 -> "4" [] n = 5 -> "5" [] n = 6 -> "6" [] n = 7 -> "7"
      [] n = 8 -> "8" [] n = 9 -> "9"

\* String.prototype.trim
RECURSIVE TrimLeft(_)
TrimLeft(s) == IF s # <<>> /\ Head(s) = " " THEN TrimLeft(Tail(s)) ELSE s
RECURSIVE TrimRight(_)
TrimRight(s) ==
    IF s # <<>> /\ s[Len(s)] = " " THEN TrimRight(SubSeq(s, 1, Len(s) - 1)) ELSE s
Trim(s) == TrimLeft(TrimRight(s))

-----------------------------------------------------------------------------
(* JavaScript numbers.  A finite number is an exact fraction n/d; the       *)
(* evaluator also carries the sign of zero, the infinities and NaN, which   *)
(* decide whether a result is finite.  Rounding of binary floating point is *)
(* not modelled.                                                            *)

RECURSIVE GCD(_, _)
GCD(a, b) == IF b = 0 THEN a ELSE GCD(b, a % b)
Abs(n) == IF n < 0 THEN -n ELSE n

Fin(n, d) ==
    LET g == GCD(Abs(n), Abs(d))
        s == IF d < 0 THEN -1 ELSE 1
    IN [k |-> "fin", n |-> s * (n \div g), d |-> s * (d \div g), neg |-> s * n < 0]
Zero(neg) == [k |-> "fin", n |-> 0, d |-> 1, neg |-> neg]
Inf(neg) == [k |-> "inf", n |-> 0, d |-> 0, neg |-> neg]
NaN == [k |-> "nan", n |-> 0, d |-> 0, neg |-> FALSE]
IsZero(v) == v.k = "fin" /\ v.n = 0

FNeg(a) ==
    CASE a.k = "nan" -> NaN
      [] a.k = "inf" -> Inf(~a.neg)
      [] OTHER -> IF a.n = 0 THEN Zero(~a.neg) ELSE Fin(-a.n, a.d)

FAdd(a, b) ==
    CASE a.k = "nan" \/ b.k = "nan" -> NaN
      [] a.k = "inf" /\ b.k = "inf" -> IF a.neg = b.neg THEN a ELSE NaN
      [] a.k = "inf" -> a
      [] b.k = "inf" -> b
      [] OTHER ->
          LET n == a.n * b.d + b.n * a.d
          IN IF n = 0
             THEN Zero(IsZero(a) /\ IsZero(b) /\ a.neg /\ b.neg)
             ELSE Fin(n, a.d * b.d)

FSub(a, b) == FAdd(a, FNeg(b))

FMul(a, b) ==
    CASE a.k = "nan" \/ b.k = "nan" -> NaN
      [] a.k = "inf" \/ b.k = "inf" ->
          IF IsZero(a) \/ IsZero(b) THEN NaN ELSE Inf(a.neg # b.neg)
      [] OTHER ->
          IF a.n * b.n = 0 THEN Zero(a.neg # b.neg) ELSE Fin(a.n * b.n, a.d * b.d)

FDiv(a, b) ==
    CASE a.k = "nan" \/ b.k = "nan" -> NaN
      [] a.k = "inf" -> IF b.k = "inf" THEN NaN ELSE Inf(a.neg # b.neg)
      [] b.k = "inf" -> Zero(a.neg # b.neg)
      [] IsZero(b) -> IF IsZero(a) THEN NaN ELSE Inf(a.neg # b.neg)
      [] OTHER ->
          IF a.n = 0 THEN Zero(a.neg # b.neg) ELSE Fin(a.n * b.d, a.d * b.n)

\* a ** b for an integer exponent b; fractional exponents are outside the model.
RECURSIVE FPowNat(_, _)
FPowNat(a, e) == IF e = 0 THEN Fin(1, 1) ELSE FMul(a, FPowNat(a, e - 1))
FPow(a, b) ==
    CASE a.k = "nan" \/ b.k # "fin" \/ b.d # 1 -> NaN
      [] b.n >= 0 -> FPowNat(a, b.n)
      [] OTHER -> FDiv(Fin(1, 1), FPowNat(a, -b.n))

\* Number.prototype.toString for a non-negative integer.
RECURSIVE NatToStr(_)
NatToStr(n) ==
    IF n < 10 THEN <<DigitChar(n)>> ELSE Append(NatToStr(n \div 10), DigitChar(n % 10))

\* The digits of r/d after the decimal point, at most `left` of them.
RECURSIVE FracDigits(_, _, _)
FracDigits(r, d, left) ==
    IF r = 0 \/ left = 0 THEN <<>>
    ELSE <<DigitChar((r * 10) \div d)>> \o FracDigits((r * 10) % d, d, left - 1)

\* Number.prototype.toString of a finite number value.
NumToStr(v) ==
    LET a == Abs(v.n)
        int == NatToStr(a \div v.d)
        frac == FracDigits(a % v.d, v.d, 16)
    IN (IF v.n < 0 THEN <<"-">> ELSE <<>>) \o int
       \o (IF frac = <<>> THEN <<>> ELSE <<".">> \o frac)

-----------------------------------------------------------------------------
(* Function(`"use strict"; return (${expr})`)() for a string that passed    *)
(* the safe pattern: a lexer and a recursive-descent parser of JavaScript's *)
(* arithmetic.  A syntax error, a runtime TypeError and a non-number result *)
(* all come out as ok = FALSE.                                              *)

\* Index after the digits that start at i.
RECURSIVE SkipDigits(_, _)
SkipDigits(s, i) == IF i <= Len(s) /\ s[i] \in Digits THEN SkipDigits(s, i + 1) ELSE i

\* Value of the digit run s[i..j-1].
RECURSIVE DigitsValue(_, _, _)
DigitsValue(s, i, j) ==
    IF i >= j THEN 0 ELSE DigitsValue(s, i, j - 1) * 10 + DigitValue(s[j - 1])

RECURSIVE Pow10(_)
Pow10(k) == IF k = 0 THEN 1 ELSE 10 * Pow10(k - 1)

\* A numeric literal at i whose integer digits end before j and whose
\* fraction digits, if any, end before m: [tok, next].
LexDigits(s, i, j, m) ==
    \* strict mode: no legacy octal, no decimal with a leading zero
    IF (j - i > 1 /\ s[i] = "0") \/ (j = i /\ m <= j + 1)
    THEN [tok |-> [k |-> "bad"], next |-> m + 1]
    ELSE [tok |-> [k |-> "num",
                   v |-> IF m > j
                         THEN Fin(DigitsValue(s, i, j) * Pow10(m - (j + 1))
                                    + DigitsValue(s, j + 1, m), Pow10(m - (j + 1)))
                         ELSE Fin(DigitsValue(s, i, j), 1)],
          next |-> m]

LexFraction(s, i, j) ==
    LexDigits(s, i, j, IF j <= Len(s) /\ s[j] = "." THEN SkipDigits(s, j + 1) ELSE j)

LexNumber(s, i) == LexFraction(s, i, SkipDigits(s, i))

RECURSIVE Lex(_, _)
Lex(s, i) ==
    LET cons(r) == <<r.tok>> \o Lex(s, r.next)
        c == s[i]
        n == IF i < Len(s) THEN s[i + 1] ELSE ""
    IN IF i > Len(s) THEN <<>>
       ELSE CASE c = " " -> Lex(s, i + 1)
              [] c \in Digits \/ c = "." -> cons(LexNumber(s, i))
              \* ++ and -- on a literal, and both comment openers, are errors here
              [] (c = "+" /\ n = "+") \/ (c = "-" /\ n = "-")
                 \/ (c = "/" /\ n \in {"/", "*"}) -> <<[k |-> "bad"]>>
              [] c = "*" /\ n = "*" -> <<[k |-> "op", s |-> "**"]>> \o Lex(s, i + 2)
              [] c \in MathOperatorChars -> <<[k |-> "op", s |-> c]>> \o Lex(s, i + 1)
              [] OTHER -> <<[k |-> "bad"]>>

IsOp(toks, i, ops) == i <= Len(toks) /\ toks[i].k = "op" /\ toks[i].s \in ops
PFail == [ok |-> FALSE, v |-> NaN, i |-> 0, unary |-> FALSE]
POk(v, i, u) == [ok |-> TRUE, v |-> v, i |-> i, unary |-> u]

RECURSIVE ParseAdd(_, _), ParseAddRest(_, _), ParseMul(_, _), ParseMulRest(_, _),
          ParseExp(_, _), ParseExpRest(_, _), ParseUnary(_, _), ParsePrimary(_, _)

ParsePrimary(toks, i) ==
    LET close(r) ==
            IF r.ok /\ IsOp(toks, r.i, {")"}) /\ ~IsOp(toks, r.i + 1, {"("})
            THEN POk(r.v, r.i + 1, FALSE) ELSE PFail
    IN IF i > Len(toks) THEN PFail
       ELSE IF toks[i].k = "num"
            \* a literal followed by "(" is a call of a number: TypeError
            THEN IF IsOp(toks, i + 1, {"("}) THEN PFail ELSE POk(toks[i].v, i + 1, FALSE)
       ELSE IF IsOp(toks, i, {"("}) THEN close(ParseAdd(toks, i + 1))
       ELSE PFail

ParseUnary(toks, i) ==
    LET sign(r) ==
            IF ~r.ok THEN PFail
            ELSE POk(IF toks[i].s = "-" THEN FNeg(r.v) ELSE r.v, r.i, TRUE)
    IN IF IsOp(toks, i, {"+", "-"}) THEN sign(ParseUnary(toks, i + 1))
       ELSE ParsePrimary(toks, i)

\* l is the left operand, already parsed
ParseExpRest(l, toks) ==
    LET power(r) == IF r.ok THEN POk(FPow(l.v, r.v), r.i, FALSE) ELSE PFail
    IN IF ~l.ok THEN PFail
       ELSE IF IsOp(toks, l.i, {"**"})
            \* a unary operator may not be the left operand of **
            THEN IF l.unary THEN PFail ELSE power(ParseExp(toks, l.i + 1))
       ELSE l

ParseExp(toks, i) == ParseExpRest(ParseUnary(toks, i), toks)

ParseMulRest(l, toks) ==
    LET step(r) ==
            IF ~r.ok THEN PFail
            ELSE POk(IF toks[l.i].s = "*" THEN FMul(l.v, r.v) ELSE FDiv(l.v, r.v),
                     r.i, FALSE)
    IN IF ~l.ok THEN PFail
       ELSE IF IsOp(toks, l.i, {"*", "/"})
            THEN ParseMulRest(step(ParseExp(toks, l.i + 1)), toks)
       ELSE l

ParseMul(toks, i) == ParseMulRest(ParseExp(toks, i), toks)

ParseAddRest(l, toks) ==
    LET step(r) ==
            IF ~r.ok THEN PFail
            ELSE POk(IF toks[l.i].s = "+" THEN FAdd(l.v, r.v) ELSE FSub(l.v, r.v),
                     r.i, FALSE)
    IN IF ~l.ok THEN PFail
       ELSE IF IsOp(toks, l.i, {"+", "-"})
            THEN ParseAddRest(step(ParseMul(toks, l.i + 1)), toks)
       ELSE l

ParseAdd(toks, i) == ParseAddRest(ParseMul(toks, i), toks)

\* The parse of a token list: a token the lexer rejected is a syntax error.
ParseTokens(toks) ==
    LET result(r) ==
            IF r.ok /\ r.i = Len(toks) + 1 /\ r.v.k = "fin"
            THEN [t |-> "num", n |-> r.v.n, d |-> r.v.d]
            ELSE Undefined
    IN IF \E i \in 1..Len(toks) : toks[i].k = "bad" THEN Undefined
       ELSE result(ParseAdd(toks, 1))

\* The number the expression evaluates to, or Undefined when evaluation
\* throws or the result is not a finite number.
EvalArithmetic(s) == ParseTokens(Lex(s, 1))

-----------------------------------------------------------------------------
(* Expressions and property references (yamlParser.js) *)

\* Depth of the JavaScript call stack at which a call raises RangeError.
MaxDepth == 8

hasMathOperators(v) ==
    \* the hexadecimal exclusion of the source never applies: a string that
    \* matches /^0x[0-9a-fA-F]+$/ holds no operator character
    IsStr(v) /\ \E i \in 1..Len(v.s) : v.s[i] \in MathOperatorChars

\* Index after the run of \w atoms that starts at i.
RECURSIVE SkipWord(_, _)
SkipWord(s, i) == IF i <= Len(s) /\ IsWordChar(s[i]) THEN SkipWord(s, i + 1) ELSE i

\* expr.match(/([a-zA-Z_][a-zA-Z0-9_]*)/g), in order of occurrence
RECURSIVE MatchIdentifiers(_, _)
MatchIdentifiers(s, i) ==
    IF i > Len(s) THEN <<>>
    ELSE IF IsIdStart(s[i])
         THEN LET j == SkipWord(s, i)
              IN <<SubSeq(s, i, j - 1)>> \o MatchIdentifiers(s, j)
         ELSE MatchIdentifiers(s, i + 1)

\* new Set(list): first occurrences, in order
RECURSIVE Dedup(_)
Dedup(l) ==
    IF l = <<>> THEN <<>>
    ELSE LET r == Dedup(SubSeq(l, 1, Len(l) - 1))
             x == l[Len(l)]
         IN IF \E i \in 1..Len(r) : r[i] = x THEN r ELSE Append(r, x)

\* String.prototype.toLowerCase on the letter atoms the documents use
Lower(a) ==
    CASE a = "E" -> "e" [] a = "PI" -> "pi" [] a = "Pi" -> "pi" [] OTHER -> a
ToLowerCase(s) == [i \in 1..Len(s) |-> Lower(s[i])]

ReservedWords == {W("sin"), W("cos"), W("tan"), W("sqrt"), W("abs"), W("pi"), W("e")}

\* !isNaN(refName) for an identifier: only Infinity converts to a number
NotNaNIdentifier(name) == name = W("Infinity")

\* s.replace(new RegExp(`\\b${name}\\b`, 'g'), repl) for a name of \w characters
RECURSIVE ReplaceWord(_, _, _, _)
ReplaceWord(s, name, repl, i) ==
    LET e == i + Len(name) - 1
    IN IF e > Len(s) THEN SubSeq(s, i, Len(s))
       ELSE IF /\ SubSeq(s, i, e) = name
               /\ (i = 1 \/ ~IsWordChar(s[i - 1]))
               /\ (e = Len(s) \/ ~IsWordChar(s[e + 1]))
            THEN repl \o ReplaceWord(s, name, repl, e + 1)
            ELSE <<s[i]>> \o ReplaceWord(s, name, repl, i + 1)

\* /^[0-9+*/()\.\s-]+$/
SafePattern(s) ==
    /\ s # <<>>
    /\ \A i \in 1..Len(s) : s[i] \in Digits \cup MathOperatorChars \cup {".", " "}

VisitKey(solidName, property) == solidName \o <<".">> \o property

\* evaluateMathExpression, lines 437-455: the expression e with its
\* references replaced is evaluated when it is safe; e comes back otherwise
evaluateResolved(e, resolved) ==
    LET number(result) == IF IsNum(result) THEN result ELSE Str(e)
    IN IF IsRaise(resolved) THEN Raise
       ELSE IF ~SafePattern(resolved.s) THEN Str(e)
       ELSE number(EvalArithmetic(resolved.s))

RECURSIVE evaluateMathExpression(_, _, _, _, _, _, _), resolveReferences(_, _, _, _, _, _)

\* arrayIndex is 0 for the source's undefined.  depth counts the JavaScript
\* frames below this call.
evaluateMathExpression(expr, currentProperty, allSolids, currentSolidName, arrayIndex, visited, depth) ==
    LET e == Trim(expr.s)
        references == Dedup(MatchIdentifiers(e, 1))
        \* lines 424-432: the evaluation sent back for a referenced expression
        nested(resolvedExpr, refName, evaluated) ==
            IF IsRaise(evaluated) THEN Raise
            ELSE IF IsNum(evaluated)
                 THEN Str(ReplaceWord(resolvedExpr, refName, NumToStr(evaluated), 1))
                 ELSE Str(resolvedExpr)
        \* lines 419-432: the resolved value replaces the name
        substitute(resolvedExpr, refName, refValue) ==
            IF IsRaise(refValue) THEN Raise
            ELSE IF IsNum(refValue)
                 THEN Str(ReplaceWord(resolvedExpr, refName, NumToStr(refValue), 1))
            ELSE IF hasMathOperators(refValue)
                 THEN nested(resolvedExpr, refName,
                             evaluateMathExpression(refValue, currentProperty, allSolids,
                                                    refName, arrayIndex, visited,
                                                    depth + 1))
            ELSE Str(resolvedExpr)
        \* lines 410-416: nested references, unless the key was visited
        visit(resolvedExpr, refName, refValue, visitKey) ==
            substitute(resolvedExpr, refName,
                       IF visitKey \notin visited
                       THEN resolveReferences(refValue, currentProperty, allSolids,
                                              refName, visited \cup {visitKey}, depth + 1)
                       ELSE refValue)
        \* lines 399-407: the element at the array index, or the whole value
        pick(resolvedExpr, refName, whole, indexed) ==
            IF ~indexed /\ whole = Undefined THEN Str(resolvedExpr)
            ELSE visit(resolvedExpr, refName,
                       IF indexed THEN At(whole, arrayIndex) ELSE whole,
                       VisitKey(refName, currentProperty))
        read(resolvedExpr, refName, whole) ==
            pick(resolvedExpr, refName, whole,
                 IsArr(whole) /\ arrayIndex # 0 /\ At(whole, arrayIndex) # Undefined)
        \* one iteration of the loop over references: the new resolvedExpr,
        \* or Raise
        step(resolvedExpr, refName) ==
            IF NotNaNIdentifier(refName) \/ ToLowerCase(refName) \in ReservedWords
            THEN Str(resolvedExpr)
            ELSE IF ~HasOwn(allSolids, refName) THEN Str(resolvedExpr)
            ELSE read(resolvedExpr, refName,
                      PropRead(Get(allSolids, refName), currentProperty))
        RECURSIVE loop(_, _)
        next(r, i) == IF IsRaise(r) THEN Raise ELSE loop(r.s, i + 1)
        loop(resolvedExpr, i) ==
            IF i > Len(references) THEN Str(resolvedExpr)
            ELSE next(step(resolvedExpr, references[i]), i)
    IN IF depth > MaxDepth THEN Raise
       ELSE IF ~IsStr(expr) THEN expr
       ELSE evaluateResolved(e, loop(e, 1))

\* The first element that raised, if any, else the array of results.
ArrayOrRaise(items) ==
    IF \E i \in 1..Len(items) : IsRaise(items[i]) THEN Raise ELSE Arr(items)
ObjectOrRaise(entries) ==
    IF \E i \in 1..Len(entries) : IsRaise(entries[i].v) THEN Raise ELSE Obj(entries)

\* A resolution without the visited set: it descends into every element and
\* member, and replaces a name by the same-named property of the solid.
resolveEverywhere(value, currentProperty, allSolids, currentSolidName, visited, depth) ==
    LET resolve(v, property) ==
            resolveReferences(v, property, allSolids, currentSolidName, {}, depth + 1)
    IN IF depth > MaxDepth THEN Raise
       ELSE IF IsArr(value)
            THEN ArrayOrRaise([i \in 1..Len(value.a) |-> resolve(value.a[i], currentProperty)])
       ELSE IF IsObj(value)
            THEN ObjectOrRaise([i \in 1..Len(value.o) |->
                     [k |-> value.o[i].k, v |-> resolve(value.o[i].v, value.o[i].k)]])
       ELSE IF IsStr(value) /\ HasOwn(allSolids, value.s)
                 /\ HasOwn(Get(allSolids, value.s), currentProperty)
            THEN Get(Get(allSolids, value.s), currentProperty)
       ELSE value

resolveReferences(value, currentProperty, allSolids, currentSolidName, visited, depth) ==
    LET visitKey == VisitKey(currentSolidName, currentProperty)
        newVisited == visited \cup {visitKey}
        \* a call with the new visited set
        resolve(v, property, solidName) ==
            resolveReferences(v, property, allSolids, solidName, newVisited, depth + 1)
        \* lines 491-504: an element that names a solid
        reference(item, index, refValue) ==
            IF IsArr(refValue) /\ At(refValue, index) # Undefined
            THEN resolve(At(refValue, index), currentProperty, item.s)
            ELSE IF refValue # Undefined THEN resolve(refValue, currentProperty, item.s)
            ELSE item
        \* the callback of value.map
        mapped(item, index, evaluated) ==
            IF IsRaise(evaluated) THEN Raise
            ELSE IF IsNum(evaluated) THEN evaluated
            ELSE IF IsStr(item) /\ HasOwn(allSolids, item.s)
                 THEN reference(item, index,
                                PropRead(Get(allSolids, item.s), currentProperty))
            ELSE resolve(item, currentProperty, currentSolidName)
        \* the direct reference of lines 531-540
        copy(refValue) ==
            IF refValue # Undefined THEN resolve(refValue, currentProperty, value.s)
            ELSE value
        direct(evaluated) ==
            IF IsRaise(evaluated) \/ IsNum(evaluated) THEN evaluated
            ELSE IF IsStr(evaluated) /\ ~HasOwn(allSolids, evaluated.s) THEN evaluated
            ELSE IF HasOwn(allSolids, value.s)
                 THEN copy(PropRead(Get(allSolids, value.s), currentProperty))
            ELSE value
    IN IF depth > MaxDepth THEN Raise
       ELSE IF visitKey \in visited THEN value
       ELSE IF IsArr(value)
            THEN ArrayOrRaise([i \in 1..Len(value.a) |->
                     mapped(value.a[i], i,
                            IF hasMathOperators(value.a[i])
                            THEN evaluateMathExpression(value.a[i], currentProperty,
                                     allSolids, currentSolidName, i, newVisited, depth + 1)
                            ELSE Undefined)])
       ELSE IF IsStr(value)
            \* evaluated is undefined when the string is no expression
            THEN direct(IF hasMathOperators(value)
                        THEN evaluateMathExpression(value, currentProperty, allSolids,
                                 currentSolidName, 0, newVisited, depth + 1)
                        ELSE Undefined)
       ELSE IF IsObj(value)
            THEN ObjectOrRaise([i \in 1..Len(value.o) |->
                     [k |-> value.o[i].k,
                      v |-> resolve(value.o[i].v, value.o[i].k, currentSolidName)]])
       ELSE value

-----------------------------------------------------------------------------
(* Clone resolution and the reference pass (yamlParser.js) *)

kSolids == W("solids")
kStamps == W("stamps")
kClone == W("clone")
kShape == W("shape")
kCenter == W("center")
kRotation == W("rotation")
kModifiers == W("modifiers")
kBoolean == W("boolean")
kVisible == W("visible")
kParent == W("parent")
kParams == W("params")
kShapes == W("shapes")
kStamp == W("stamp")
kAt == W("at")
kRotate == W("rotate")

\* The string a value becomes as a property key or in a template literal.
ToStr(v) ==
    CASE IsStr(v) -> v.s
      [] IsNum(v) -> NumToStr(v)
      [] v.t = "bool" -> IF v.b THEN W("true") ELSE W("false")
      [] v.t = "undef" -> W("undefined")
      [] OTHER -> W("[object Object]")

\* Object.entries(x): the own entries of an object, none for a primitive.
Entries(x) == IF IsObj(x) THEN x.o ELSE <<>>

\* resolveClones, lines 565-572: the solids that need cloning
clonesToProcess(solids) ==
    LET named == SelectSeq(solids.o, LAMBDA e : Truthy(Get(e.v, kClone)))
    IN [i \in 1..Len(named) |-> [name |-> named[i].k, cloneRef |-> Get(named[i].v, kClone)]]

\* resolveClones, lines 583-632: the body of the for loop for one entry
cloneOne(st, c) ==
    LET resolvedSolids == st.solids
        solid == Get(resolvedSolids, c.name)
        ref == ToStr(c.cloneRef)
        refSolid == PropRead(resolvedSolids, ref)
        overrides == Del(solid, kClone)
        clonedProperties == deepClone(refSolid)
        merged == Spread(IF IsObj(clonedProperties) THEN clonedProperties ELSE Obj(<<>>),
                         overrides)
        shaped == IF ~Truthy(Get(merged, kShape)) /\ Truthy(Get(refSolid, kShape))
                  THEN Put(merged, kShape, Get(refSolid, kShape))
                  ELSE merged
    IN IF ~Truthy(Get(solid, kClone)) THEN st
       ELSE IF ~Truthy(refSolid)
            THEN [st EXCEPT !.solids = Put(resolvedSolids, c.name, Del(solid, kClone))]
       ELSE IF Truthy(Get(refSolid, kClone)) THEN st
       ELSE [solids |-> Put(resolvedSolids, c.name, Del(shaped, kClone)),
             hasChanges |-> TRUE]

\* One iteration of the while loop of resolveClones.
RECURSIVE clonePassFrom(_, _, _)
clonePassFrom(st, todoClones, i) ==
    IF i > Len(todoClones) THEN st
    ELSE clonePassFrom(cloneOne(st, todoClones[i]), todoClones, i + 1)
clonePass(solids, todoClones) ==
    clonePassFrom([solids |-> solids, hasChanges |-> FALSE], todoClones, 1)

\* The pass bound of both loops.
maxPasses == 10

\* A pass that resolves nothing.
noReferencePass(resolvedSolids) == [solids |-> resolvedSolids, hasChanges |-> FALSE]

\* resolveAllReferences, lines 669-688: one pass over every solid and key.
\* JSON.stringify is one-to-one on the values of the model, so the
\* comparison of the two serialisations is the comparison of the values.
referencePass(resolvedSolids) ==
    LET result(new) ==
            IF IsRaise(new) THEN [solids |-> Raise, hasChanges |-> FALSE]
            ELSE [solids |-> new,
                  hasChanges |-> \E i \in 1..Len(new.o) :
                                     new.o[i].v # Obj(Entries(resolvedSolids.o[i].v))]
    IN result(ObjectOrRaise([i \in 1..Len(resolvedSolids.o) |->
           [k |-> resolvedSolids.o[i].k,
            v |-> ObjectOrRaise([j \in 1..Len(Entries(resolvedSolids.o[i].v)) |->
                      [k |-> Entries(resolvedSolids.o[i].v)[j].k,
                       v |-> IF Entries(resolvedSolids.o[i].v)[j].k = kShape
                             THEN Entries(resolvedSolids.o[i].v)[j].v
                             ELSE resolveReferences(Entries(resolvedSolids.o[i].v)[j].v,
                                      Entries(resolvedSolids.o[i].v)[j].k,
                                      resolvedSolids, resolvedSolids.o[i].k, {}, 1)]])]]))

-----------------------------------------------------------------------------
(* Stamp expansion (yamlParser.js, processStamps) *)

Zero3 == Arr(<<Num(0), Num(0), Num(0)>>)
\* x || 0
OrZero(v) == IF Truthy(v) THEN v ELSE Num(0)
\* x || y
OrElse(v, w) == IF Truthy(v) THEN v ELSE w
ToF(v) == Fin(v.n, v.d)
FromF(f) == [t |-> "num", n |-> f.n, d |-> f.d]
NumAdd(a, b) == FromF(FAdd(ToF(a), ToF(b)))

\* Math.cos and Math.sin of an angle in degrees, for the multiples of 90 the
\* documents use (exact values: floating-point rounding is not modelled).
CosDeg(a) ==
    CASE a.n % 360 = 0 -> Fin(1, 1) [] a.n % 360 = 180 -> Fin(-1, 1)
      [] a.n % 360 \in {90, 270} -> Zero(FALSE)
SinDeg(a) ==
    CASE a.n % 360 = 90 -> Fin(1, 1) [] a.n % 360 = 270 -> Fin(-1, 1)
      [] a.n % 360 \in {0, 180} -> Zero(FALSE)

\* value.replace(new RegExp(`\\$${paramName}\\b`, 'g'), repl)
RECURSIVE ReplaceParam(_, _, _, _)
ReplaceParam(s, name, repl, i) ==
    LET e == i + Len(name)
    IN IF i > Len(s) THEN <<>>
       ELSE IF /\ s[i] = "$"
               /\ e <= Len(s)
               /\ SubSeq(s, i + 1, e) = name
               /\ (e = Len(s) \/ ~IsWordChar(s[e + 1]))
            THEN repl \o ReplaceParam(s, name, repl, e + 1)
            ELSE <<s[i]>> \o ReplaceParam(s, name, repl, i + 1)

RECURSIVE substituteParameters(_, _)
substituteParameters(value, paramMap) ==
    LET RECURSIVE each(_, _)
        each(result, i) ==
            IF i > Len(paramMap.o) THEN result
            ELSE each(ReplaceParam(result, paramMap.o[i].k, ToStr(paramMap.o[i].v), 1), i + 1)
    IN CASE IsStr(value) -> Str(each(value.s, 1))
         [] IsArr(value) ->
             Arr([i \in 1..Len(value.a) |-> substituteParameters(value.a[i], paramMap)])
         [] IsObj(value) ->
             Obj([i \in 1..Len(value.o) |->
                     [k |-> value.o[i].k,
                      v |-> substituteParameters(value.o[i].v, paramMap)]])
         [] OTHER -> value

\* lines 298-321
RECURSIVE updateBooleanReferences(_, _)
updateBooleanReferences(obj, nameMap) ==
    LET operation(op) ==
            LET first == Entries(op)[1]
            IN IF Truthy(PropRead(nameMap, ToStr(first.v)))
               THEN Obj(<<[k |-> first.k, v |-> PropRead(nameMap, ToStr(first.v))]>>)
               ELSE op
    IN CASE IsArr(obj) ->
             Arr([i \in 1..Len(obj.a) |-> updateBooleanReferences(obj.a[i], nameMap)])
         [] IsObj(obj) ->
             Obj([i \in 1..Len(obj.o) |->
                     [k |-> obj.o[i].k,
                      v |-> IF obj.o[i].k = kBoolean /\ IsArr(obj.o[i].v)
                            THEN Arr([j \in 1..Len(obj.o[i].v.a) |->
                                         operation(obj.o[i].v.a[j])])
                            ELSE updateBooleanReferences(obj.o[i].v, nameMap)]])
         [] OTHER -> obj

\* lines 70-92: {stampName, stampParams, stampPosition, stampRotation}
normalizeInstance(stampInstance) ==
    IF IsStr(stampInstance)
    THEN [stampName |-> stampInstance, stampParams |-> Obj(<<>>),
          stampPosition |-> Zero3, stampRotation |-> Zero3]
    ELSE [stampName |-> Get(stampInstance, kStamp),
          stampParams |-> Obj(SelectSeq(Entries(stampInstance),
                                        LAMBDA e : e.k \notin {kStamp, kAt, kRotate})),
          stampPosition |-> OrElse(Get(stampInstance, kAt), Zero3),
          stampRotation |-> OrElse(Get(stampInstance, kRotate), Zero3)]

\* paramName.replace(/^\$/, '')
StripDollar(s) == IF s # <<>> /\ Head(s) = "$" THEN Tail(s) ELSE s

\* A binding by name only, without the fallback to the position.
bindByNameOnly(stampDef, stampParams) ==
    LET RECURSIVE each(_, _)
        each(paramMap, index) ==
            IF index > Len(Get(stampDef, kParams).a) THEN paramMap
            ELSE LET p == StripDollar(ToStr(Get(stampDef, kParams).a[index]))
                 IN each(IF Get(stampParams, p) \notin {Null, Undefined}
                         THEN Put(paramMap, p, Get(stampParams, p))
                         ELSE paramMap,
                         index + 1)
    IN IF IsArr(Get(stampDef, kParams)) THEN each(Obj(<<>>), 1) ELSE stampParams

\* lines 101-130
buildParamMap(stampDef, stampParams) ==
    LET \* lines 121-123
        keep(paramMap, cleanParamName, paramValue) ==
            IF paramValue \notin {Null, Undefined}
            THEN Put(paramMap, cleanParamName, paramValue)
            ELSE paramMap
        \* lines 108-119: the value by name, else by position
        assign(paramMap, index, cleanParamName) ==
            IF HasOwn(stampParams, cleanParamName)
            THEN keep(paramMap, cleanParamName, Get(stampParams, cleanParamName))
            ELSE IF index <= Len(Keys(stampParams)) /\ Keys(stampParams)[index] # <<>>
                 THEN keep(paramMap, cleanParamName,
                           Get(stampParams, Keys(stampParams)[index]))
                 ELSE paramMap
        RECURSIVE each(_, _)
        each(paramMap, index) ==
            IF index > Len(Get(stampDef, kParams).a) THEN paramMap
            ELSE each(assign(paramMap, index,
                             StripDollar(ToStr(Get(stampDef, kParams).a[index]))),
                      index + 1)
    IN IF IsArr(Get(stampDef, kParams)) THEN each(Obj(<<>>), 1) ELSE stampParams

\* lines 149-166
evaluateCenterExpressions(center) ==
    LET pick(val, result) == IF IsNum(result) THEN result ELSE val
    IN Arr([i \in 1..Len(center.a) |->
               IF hasMathOperators(center.a[i]) /\ SafePattern(Trim(center.a[i].s))
               THEN pick(center.a[i], EvalArithmetic(Trim(center.a[i].s)))
               ELSE center.a[i]])

\* lines 239-250 and 265-277: offset each component of the center
offsetCenter(center, offsets) ==
    Arr([i \in 1..Len(center.a) |->
        LET val == center.a[i]
            offset == IF i = 1 THEN offsets[1] ELSE IF i = 2 THEN offsets[2] ELSE offsets[3]
        IN IF IsNum(val) THEN NumAdd(val, offset)
           ELSE IF IsStr(val)
                THEN IF offset # Num(0)
                     THEN Str(<<"(">> \o val.s \o <<")", " ", "+", " ">> \o NumToStr(offset))
                     ELSE val
           ELSE val])

\* lines 197-226: the point p = <<x, y, z>> rotated by the angle about one
\* axis (1 = X, 2 = Y, 3 = Z); a zero angle is skipped
rotateAbout(axis, p, angle) ==
    IF angle = Num(0) THEN p
    ELSE CASE axis = 3 ->
                <<FSub(FMul(p[1], CosDeg(angle)), FMul(p[2], SinDeg(angle))),
                  FAdd(FMul(p[1], SinDeg(angle)), FMul(p[2], CosDeg(angle))),
                  p[3]>>
           [] axis = 2 ->
                <<FAdd(FMul(p[1], CosDeg(angle)), FMul(p[3], SinDeg(angle))),
                  p[2],
                  FAdd(FMul(FNeg(p[1]), SinDeg(angle)), FMul(p[3], CosDeg(angle)))>>
           [] axis = 1 ->
                <<p[1],
                  FSub(FMul(p[2], CosDeg(angle)), FMul(p[3], SinDeg(angle))),
                  FAdd(FMul(p[2], SinDeg(angle)), FMul(p[3], CosDeg(angle)))>>

\* lines 190-234: rotate about Z, then Y, then X, then translate
rotateCenter(c, rot, offsets) ==
    LET translate(p) ==
            Arr([i \in 1..3 |-> FromF(FAdd(p[i], ToF(offsets[i])))])
    IN translate(rotateAbout(1,
                     rotateAbout(2,
                         rotateAbout(3, <<ToF(c.a[1]), ToF(c.a[2]), ToF(c.a[3])>>,
                                     rot[3]),
                         rot[2]),
                     rot[1]))

\* lines 253-261 and 281-289: add the instance rotation to the shape's own
addRotation(shape, rot) ==
    LET existingRot == OrElse(Get(shape, kRotation), Zero3)
    IN Put(shape, kRotation,
           Arr([i \in 1..3 |-> NumAdd(OrZero(At(existingRot, i)), rot[i])]))

\* lines 168-290: the processed shape placed at the instance's position and
\* rotation
placeShape(processedShape, stampPosition, stampRotation) ==
    LET center == Get(processedShape, kCenter)
        rot == [i \in 1..3 |-> OrZero(At(stampRotation, i))]
        offsets == [i \in 1..3 |-> OrZero(At(stampPosition, i))]
        offset == Put(processedShape, kCenter, offsetCenter(center, offsets))
        rotated(evaluatedCenter) ==
            IF \A i \in 1..Len(evaluatedCenter.a) : IsNum(evaluatedCenter.a[i])
            THEN Put(processedShape, kCenter, rotateCenter(evaluatedCenter, rot, offsets))
            ELSE addRotation(offset, rot)
    IN IF Truthy(center) /\ IsArr(center)
       THEN IF \E i \in 1..3 : OrZero(At(stampRotation, i)) # Num(0)
            THEN rotated(evaluateCenterExpressions(center))
            ELSE offset
       ELSE IF Truthy(stampRotation) /\ \E i \in 1..3 : At(stampRotation, i) # Num(0)
            THEN addRotation(processedShape, rot)
            ELSE processedShape

\* lines 143-290: one local shape of a stamp instance
processShape(shapeDef, paramMap, stampPosition, stampRotation) ==
    placeShape(substituteParameters(deepClone(shapeDef), paramMap), stampPosition,
               stampRotation)

\* line 139
uniqueNameOf(solidName, stampInstanceName, shapeName) ==
    solidName \o <<"_">> \o stampInstanceName \o <<"_">> \o shapeName

\* lines 132-332: the shapes of one instance, as [nameMap, shapes].  The
\* local names are the keys of one object, so the unique names of one instance
\* are distinct and no entry of the instance replaces another.
expandShapes(solidName, stampInstanceName, stampDef, paramMap, inst) ==
    LET shapes == IF Truthy(Get(stampDef, kShapes))
                  THEN Entries(Get(stampDef, kShapes)) ELSE <<>>
        uniqueName(i) == uniqueNameOf(solidName, stampInstanceName, shapes[i].k)
        nameMap == Obj([i \in 1..Len(shapes) |-> [k |-> shapes[i].k,
                                                   v |-> Str(uniqueName(i))]])
        \* lines 323-331: the second pass over the processed shapes
        second(processedShape) ==
            IF Truthy(Get(processedShape, kModifiers))
            THEN Put(processedShape, kModifiers,
                     updateBooleanReferences(Get(processedShape, kModifiers), nameMap))
            ELSE processedShape
    IN [nameMap |-> nameMap,
        shapes |-> [i \in 1..Len(shapes) |->
                       [k |-> uniqueName(i),
                        v |-> second(processShape(shapes[i].v, paramMap,
                                                  inst.stampPosition,
                                                  inst.stampRotation))]]]

\* [...a, ...b] for an array b: a must be iterable
SpreadConcat(a, b) ==
    CASE IsArr(a) -> Arr(a.a \o b.a)
      [] IsStr(a) -> Arr([i \in 1..Len(a.s) |-> Str(<<a.s[i]>>)] \o b.a)
      [] OTHER -> Raise

\* lines 69-350: one stamp instance of a host.  st = [newSolids, processedSolid],
\* processedSolid being Raise once the spread of line 344 has thrown.
processInstance(st, stamps, solidName, stampInstanceName, stampInstance) ==
    LET inst == normalizeInstance(stampInstance)
        stampDef == PropRead(stamps, ToStr(inst.stampName))
        parentModifiers == deepClone(Get(Get(stampDef, kParent), kModifiers))
        modifiers == Get(st.processedSolid, kModifiers)
        RECURSIVE add(_, _, _)
        add(newSolids, shapes, i) ==
            IF i > Len(shapes) THEN newSolids
            ELSE add(Put(newSolids, shapes[i].k, shapes[i].v), shapes, i + 1)
        \* lines 338-349: the parent's boolean operations join the host's
        join(joined) ==
            IF IsRaise(joined) THEN Raise
            ELSE Put(st.processedSolid, kModifiers, Put(modifiers, kBoolean, joined))
        merge(boolean) ==
            IF Truthy(boolean) /\ IsArr(boolean)
            THEN join(SpreadConcat(Get(modifiers, kBoolean), boolean))
            ELSE st.processedSolid
        withShapes(ex) ==
            [newSolids |-> add(st.newSolids, ex.shapes, 1),
             processedSolid |->
                 IF Truthy(Get(stampDef, kParent)) /\ Truthy(parentModifiers)
                 THEN merge(Get(updateBooleanReferences(parentModifiers, ex.nameMap),
                                kBoolean))
                 ELSE st.processedSolid]
    IN IF IsRaise(st.processedSolid) \/ ~Truthy(stampDef) THEN st
       ELSE withShapes(expandShapes(solidName, stampInstanceName, stampDef,
                                    buildParamMap(stampDef, inst.stampParams), inst))

\* lines 67-351: the loop over the stamp instances of a host
RECURSIVE processInstances(_, _, _, _, _)
processInstances(st, stamps, solidName, instances, i) ==
    IF i > Len(instances) THEN st
    ELSE processInstances(processInstance(st, stamps, solidName, instances[i].k,
                                          instances[i].v),
                          stamps, solidName, instances, i + 1)

\* lines 50-355: one solid of the document
processHost(newSolids, stamps, solidName, solid) ==
    LET withModifiers == IF ~Truthy(Get(solid, kModifiers))
                         THEN Put(solid, kModifiers, Obj(<<>>))
                         ELSE solid
        \* lines 60-65: modifiers.boolean exists
        processedSolid ==
            IF ~Truthy(Get(Get(withModifiers, kModifiers), kBoolean))
            THEN Put(withModifiers, kModifiers,
                     Put(Get(withModifiers, kModifiers), kBoolean, Arr(<<>>)))
            ELSE withModifiers
        finish(done) ==
            IF IsRaise(done.processedSolid) THEN Raise
            ELSE Put(done.newSolids, solidName, Del(done.processedSolid, kStamps))
    IN IF ~Truthy(Get(solid, kStamps)) THEN Put(newSolids, solidName, solid)
       ELSE finish(processInstances([newSolids |-> newSolids,
                                     processedSolid |-> processedSolid],
                                    stamps, solidName, Entries(Get(solid, kStamps)), 1))

\* lines 48-356: the loop over the solids of the document
RECURSIVE processHosts(_, _, _, _)
processHosts(newSolids, stamps, solids, i) ==
    IF i > Len(solids) \/ IsRaise(newSolids) THEN newSolids
    ELSE processHosts(processHost(newSolids, stamps, solids[i].k, solids[i].v),
                      stamps, solids, i + 1)

\* A document is [solids |-> value, stamps |-> value]; the result is the new
\* document, or Raise.
\* lines 41-43: processStamps returns the object it was given
returnsInput(d) == ~Truthy(d.stamps) \/ ~Truthy(d.solids)
processStamps(d) ==
    LET result(newSolids) ==
            IF IsRaise(newSolids) THEN Raise ELSE [d EXCEPT !.solids = newSolids]
    IN IF returnsInput(d) THEN d
       ELSE result(processHosts(Obj(<<>>), d.stamps, Entries(deepClone(d.solids)), 1))

-----------------------------------------------------------------------------
(* parseYAML as a state machine: processStamps, then resolveAllReferences  *)
(* (resolveClones pass by pass, then the reference loop pass by pass).     *)

\* The order of the stages in the specification's control flow.
clonesFirst == <<"clones", "stamps", "refs">>

\* The order in which parseYAML and resolveAllReferences run the stages.
stageOrder == <<"stamps", "clones", "refs">>

StageAfter(stage) ==
    LET i == CHOOSE j \in 1..Len(stageOrder) : stageOrder[j] = stage
    IN IF i = Len(stageOrder) THEN "done" ELSE stageOrder[i + 1]

\* A stage that starts its loop on the solids map it was given.
enterWithoutCopy(stage, d) ==
    /\ pc' = stage
    /\ data' = d
    /\ work' = d.solids
    /\ sharedWork' = sharedSolids'
    /\ pass' = 0
    /\ hasChanges' = TRUE

\* The pass loops start on a JSON copy of the solids (lines 564 and 660), with
\* hasChanges = true and pass = 0.  The copy is a new object.
EnterStage(stage, d) ==
    /\ pc' = stage
    /\ data' = d
    /\ work' = IF Truthy(d.solids) THEN deepClone(d.solids) ELSE d.solids
    /\ sharedWork' = FALSE
    /\ pass' = 0
    /\ hasChanges' = TRUE

\* parseYAML's catch: the error is rethrown to the caller.
Throw ==
    /\ pc' = "failed"
    /\ UNCHANGED <<data, work, pass, hasChanges, sharedSolids, sharedWork>>

\* processStamps(data): every write goes to a deepClone of the solids or of
\* a stamp's shape, nothing is written to the input.
ProcessStamps ==
    /\ pc = "stamps"
    /\ LET return(r) ==
               IF r = Raise THEN Throw /\ UNCHANGED stages
               ELSE /\ sharedSolids' = (sharedSolids /\ returnsInput(data))
                    /\ EnterStage(StageAfter("stamps"), r)
                    /\ stages' = Append(stages, "stamps")
       IN return(processStamps(data))
    /\ UNCHANGED <<doc, input, renderVars, exportVars>>

\* resolveAllReferences, lines 647-649: a document without solids is
\* returned as it is, before resolveClones is called.
NoSolids ==
    /\ pc = "clones"
    /\ ~Truthy(data.solids)
    /\ pc' = "done"
    /\ UNCHANGED <<doc, data, work, pass, hasChanges, stages, input, sharedSolids,
                   sharedWork, renderVars, exportVars>>

\* One iteration of the while loop of resolveClones.
ClonePass ==
    /\ pc = "clones"
    /\ Truthy(data.solids)
    /\ hasChanges /\ pass < maxPasses
    /\ LET return(r) ==
               /\ work' = r.solids
               /\ hasChanges' = r.hasChanges
               \* lines 616-630 assign and delete in place
               /\ input' = IF sharedWork THEN [input EXCEPT !.solids = r.solids] ELSE input
       IN return(clonePass(work, clonesToProcess(data.solids)))
    /\ pass' = pass + 1
    /\ UNCHANGED <<doc, pc, data, stages, sharedSolids, sharedWork, renderVars, exportVars>>

\* resolveClones returns resolvedSolids.
ClonesDone ==
    /\ pc = "clones"
    /\ Truthy(data.solids)
    /\ ~(hasChanges /\ pass < maxPasses)
    /\ sharedSolids' = sharedWork
    /\ EnterStage(StageAfter("clones"), [data EXCEPT !.solids = work])
    /\ stages' = Append(stages, "clones")
    /\ UNCHANGED <<doc, input, renderVars, exportVars>>

\* A loop that goes on to the bound whether the last pass changed a value or
\* not.
ReferencePassToBound ==
    /\ pc = "refs"
    /\ Truthy(data.solids)
    /\ pass < maxPasses
    /\ LET return(r) ==
               IF IsRaise(r.solids) THEN Throw
               \* newResolvedSolids is a new object on every pass (line 667)
               ELSE /\ work' = r.solids
                    /\ sharedWork' = FALSE
                    /\ hasChanges' = r.hasChanges
                    /\ pass' = pass + 1
                    /\ UNCHANGED <<pc, data, sharedSolids>>
       IN return(referencePass(work))
    /\ UNCHANGED <<doc, stages, input, renderVars, exportVars>>

\* One iteration of the while loop of resolveAllReferences.
ReferencePass ==
    /\ pc = "refs"
    /\ Truthy(data.solids)
    /\ hasChanges /\ pass < maxPasses
    /\ LET return(r) ==
               IF IsRaise(r.solids) THEN Throw
               \* newResolvedSolids is a new object on every pass (line 667)
               ELSE /\ work' = r.solids
                    /\ sharedWork' = FALSE
                    /\ hasChanges' = r.hasChanges
                    /\ pass' = pass + 1
                    /\ UNCHANGED <<pc, data, sharedSolids>>
       IN return(referencePass(work))
    /\ UNCHANGED <<doc, stages, input, renderVars, exportVars>>

\* resolveAllReferences returns {...data, solids: resolvedSolids}.
ReferencesDone ==
    /\ pc = "refs"
    /\ Truthy(data.solids)
    /\ ~(hasChanges /\ pass < maxPasses)
    /\ sharedSolids' = sharedWork
    /\ EnterStage(StageAfter("refs"), [data EXCEPT !.solids = work])
    /\ stages' = Append(stages, "refs")
    /\ UNCHANGED <<doc, input, renderVars, exportVars>>

ResolveNext ==
    \/ ProcessStamps
    \/ NoSolids
    \/ ClonePass
    \/ ClonesDone
    \/ ReferencePass
    \/ ReferencesDone

-----------------------------------------------------------------------------
(* Dependency collection and boolean operations *)

Range(q) == {q[i] : i \in 1..Len(q)}

\* boolean.js, normalizeBooleanOperations: the list format is kept, the
\* grouped-by-operator format becomes one single-key record per target.
normalizeBooleanOperations(booleanOps) ==
    LET groups == Entries(booleanOps)
        one(op, target) == O(<< <<op, target>> >>)
        RECURSIVE each(_)
        each(i) ==
            IF i > Len(groups) THEN <<>>
            ELSE (IF IsArr(groups[i].v)
                  THEN [j \in 1..Len(groups[i].v.a) |-> one(groups[i].k, groups[i].v.a[j])]
                  ELSE <<one(groups[i].k, groups[i].v)>>) \o each(i + 1)
    IN IF IsArr(booleanOps) THEN booleanOps.a ELSE each(1)

\* dependencyResolver.js, collectDependencies.  The Set is the sequence
\* names, without repetitions and in insertion order; thrown is TRUE when an
\* operation has no entry (destructuring undefined throws a TypeError).
NoDependencies == [names |-> <<>>, thrown |-> FALSE]

RECURSIVE collectDependencies(_, _, _), collectOperations(_, _, _, _)

\* lines 38-51: the loop over the operations, from the i-th on
collectOperations(operations, allSolids, dependencies, i) ==
    LET targetName == ToStr(Entries(operations[i])[1].v)
    IN IF dependencies.thrown \/ i > Len(operations) THEN dependencies
       ELSE IF Entries(operations[i]) = <<>> THEN [dependencies EXCEPT !.thrown = TRUE]
       ELSE IF Truthy(PropRead(allSolids, targetName))
               /\ targetName \notin Range(dependencies.names)
            THEN collectOperations(operations, allSolids,
                     collectDependencies(PropRead(allSolids, targetName), allSolids,
                         [dependencies EXCEPT !.names = Append(@, targetName)]),
                     i + 1)
       ELSE collectOperations(operations, allSolids, dependencies, i + 1)

collectDependencies(solid, allSolids, dependencies) ==
    IF ~Truthy(Get(solid, kModifiers)) \/ ~Truthy(Get(Get(solid, kModifiers), kBoolean))
    THEN dependencies
    ELSE collectOperations(
             normalizeBooleanOperations(Get(Get(solid, kModifiers), kBoolean)),
             allSolids, dependencies, 1)

\* A Three.js mesh: the solid it was created for, the render that created it
\* and the boolean operations applied to its geometry, in order.
Mesh(name, gen, ops) == [t |-> "mesh", name |-> name, gen |-> gen, ops |-> ops]

CsgOperations == {W("difference"), W("union"), W("intersection")}

\* boolean.js, applyBooleanModifier, lines 68-136: the operations that reach
\* csgEvaluator.evaluate, each with the target mesh it read.
applyBooleanModifier(operations, allSolids, processed) ==
    LET RECURSIVE each(_)
        each(i) ==
            IF i > Len(operations) THEN <<>>
            ELSE LET opType == Entries(operations[i])[1].k
                     targetName == ToStr(Entries(operations[i])[1].v)
                     targetMesh == Get(processed, targetName)
                 IN (IF /\ Truthy(PropRead(allSolids, targetName))
                        /\ Truthy(targetMesh)
                        /\ opType \in CsgOperations
                     THEN <<[op |-> opType, target |-> targetName, mesh |-> targetMesh]>>
                     ELSE <<>>) \o each(i + 1)
    IN each(1)

\* modifiers/index.js, applyModifiers: the operations applied to the mesh.
applyModifiers(modifiers, allSolids, processed) ==
    IF Truthy(modifiers) /\ Truthy(Get(modifiers, kBoolean))
    THEN applyBooleanModifier(normalizeBooleanOperations(Get(modifiers, kBoolean)),
                              allSolids, processed)
    ELSE <<>>

-----------------------------------------------------------------------------
(* renderModel and createSolid as a state machine *)

\* The number of times the user renders the document.
MaxRenders == 2

IsProcessed(name) == HasOwn(processedSolids, name) /\ Get(processedSolids, name) # Null
InProgress(name) == HasOwn(processedSolids, name) /\ Get(processedSolids, name) = Null

\* A createSolid that starts the solid without building its dependencies.
frameWithoutDependencies(name, solid) ==
    [name |-> name, solid |-> solid, deps |-> <<>>, i |-> 1]

\* solidBuilder.js, createSolid lines 27-33: mark in progress, collect the
\* dependencies, start the loop over them.
Frame(name, solid) ==
    [name |-> name, solid |-> solid,
     deps |-> collectDependencies(solid, rdata.solids, NoDependencies).names, i |-> 1]

\* renderModel lines 152-171: the body of the second pass after createSolid
\* has returned mesh for the first solid of todo.
SecondPassBody(mesh) ==
    /\ allMeshes' = Put(allMeshes, Head(todo).k, mesh)
    /\ IF Get(Head(todo).v, kVisible) # Bool(FALSE)
       THEN /\ scene' = scene \cup {mesh}
            /\ newModels' = Append(newModels, mesh)
       ELSE UNCHANGED <<scene, newModels>>
    /\ todo' = Tail(todo)
    /\ rpc' = IF Tail(todo) = <<>> THEN "hide" ELSE "create"

\* renderModel lines 81-103 when parseYAML returned: the old models leave
\* the scene and the model list is emptied.
RenderModel ==
    /\ rpc = "idle" /\ pc = "done" /\ renders < MaxRenders
    /\ renders' = renders + 1
    /\ rdata' = data
    /\ scene' = scene \ Range(models)
    /\ models' = <<>>
    /\ processedSolids' = Obj(<<>>)
    /\ stack' = <<>>
    /\ todo' = <<>>
    /\ allMeshes' = Obj(<<>>)
    /\ newModels' = <<>>
    /\ usedAsDependencies' = {}
    /\ applied' = <<>>
    /\ rpc' = IF Truthy(data.solids) THEN "collect" ELSE "idle"
    /\ UNCHANGED <<resolveVars, exportVars>>

\* renderModel lines 84-86 and 346-349 when parseYAML threw: the error is
\* shown and nothing else changes.
RenderParseError ==
    /\ rpc = "idle" /\ pc = "failed" /\ renders < MaxRenders
    /\ renders' = renders + 1
    /\ UNCHANGED <<rpc, rdata, processedSolids, stack, todo, allMeshes, newModels,
                   usedAsDependencies, scene, models, applied>>
    /\ UNCHANGED <<resolveVars, exportVars>>

\* A first pass that records no dependency.
collectNone ==
    /\ rpc = "collect"
    /\ usedAsDependencies' = {}
    /\ todo' = Entries(rdata.solids)
    /\ rpc' = "create"
    /\ UNCHANGED <<rdata, processedSolids, stack, allMeshes, newModels, scene, models,
                   applied, renders>>
    /\ UNCHANGED <<resolveVars, exportVars>>

\* renderModel lines 130-140: the first pass.
CollectUsed ==
    /\ rpc = "collect"
    /\ LET solids == Entries(rdata.solids)
           collected(deps) ==
               IF \E i \in 1..Len(solids) : deps[i].thrown
               THEN /\ rpc' = "idle"
                    /\ UNCHANGED <<usedAsDependencies, todo>>
               ELSE /\ usedAsDependencies' =
                          UNION {Range(deps[i].names) : i \in 1..Len(solids)}
                    /\ todo' = solids
                    /\ rpc' = IF solids = <<>> THEN "hide" ELSE "create"
       IN collected([i \in 1..Len(solids) |->
                        IF Truthy(Get(solids[i].v, kModifiers))
                           /\ Truthy(Get(Get(solids[i].v, kModifiers), kBoolean))
                        THEN collectDependencies(solids[i].v, rdata.solids,
                                                 NoDependencies)
                        ELSE NoDependencies])
    /\ UNCHANGED <<rdata, processedSolids, stack, allMeshes, newModels, scene, models,
                   applied, renders>>
    /\ UNCHANGED <<resolveVars, exportVars>>

\* renderModel line 152 calling createSolid, lines 22-25: the solid was
\* created as a dependency of an earlier one and its mesh is returned.
CreateSolidCached ==
    /\ rpc = "create" /\ stack = <<>> /\ todo # <<>>
    /\ IsProcessed(Head(todo).k)
    /\ SecondPassBody(Get(processedSolids, Head(todo).k))
    /\ UNCHANGED <<rdata, processedSolids, stack, usedAsDependencies, models, applied,
                   renders>>
    /\ UNCHANGED <<resolveVars, exportVars>>

\* renderModel line 152 calling createSolid, lines 27-33.
CreateSolidCall ==
    /\ rpc = "create" /\ stack = <<>> /\ todo # <<>>
    /\ ~IsProcessed(Head(todo).k)
    /\ processedSolids' = Put(processedSolids, Head(todo).k, Null)
    /\ stack' = <<Frame(Head(todo).k, Head(todo).v)>>
    /\ UNCHANGED <<rpc, rdata, todo, allMeshes, newModels, usedAsDependencies, scene,
                   models, applied, renders>>
    /\ UNCHANGED <<resolveVars, exportVars>>

\* createSolid lines 41-51 and 53-54: a dependency that is processed, in
\* progress, or no solid at all is passed over.
DependencySkip ==
    /\ rpc = "create" /\ stack # <<>>
    /\ LET top == stack[Len(stack)]
       IN /\ top.i <= Len(top.deps)
          /\ \/ HasOwn(processedSolids, top.deps[top.i])
             \/ ~Truthy(PropRead(rdata.solids, top.deps[top.i]))
          /\ stack' = [stack EXCEPT ![Len(stack)].i = top.i + 1]
    /\ UNCHANGED <<rpc, rdata, processedSolids, todo, allMeshes, newModels,
                   usedAsDependencies, scene, models, applied, renders>>
    /\ UNCHANGED <<resolveVars, exportVars>>

\* createSolid lines 52-58: the recursive call for a dependency.
DependencyCall ==
    /\ rpc = "create" /\ stack # <<>>
    /\ LET top == stack[Len(stack)]
       IN /\ top.i <= Len(top.deps)
          /\ ~HasOwn(processedSolids, top.deps[top.i])
          /\ Truthy(PropRead(rdata.solids, top.deps[top.i]))
          /\ processedSolids' = Put(processedSolids, top.deps[top.i], Null)
          /\ stack' = Append(stack, Frame(top.deps[top.i],
                                          PropRead(rdata.solids, top.deps[top.i])))
    /\ UNCHANGED <<rpc, rdata, todo, allMeshes, newModels, usedAsDependencies, scene,
                   models, applied, renders>>
    /\ UNCHANGED <<resolveVars, exportVars>>

\* shapes.js, createGeometry: an extrusion with a "poly" profile calls
\* profile.points.map (createExtrusion, lines 78-82), which throws a TypeError
\* when points is truthy and no array.
createGeometryThrows(solid) ==
    LET profile == Get(solid, W("profile"))
    IN /\ Get(solid, kShape) = Str(W("extrusion"))
       /\ Get(profile, W("type")) = Str(W("poly"))
       /\ Truthy(Get(profile, W("points")))
       /\ ~IsArr(Get(profile, W("points")))

\* createSolid line 66 throwing: the error unwinds createSolid and the second
\* pass and reaches renderModel's catch (lines 346-349), which shows it.
CreateSolidThrow ==
    /\ rpc = "create" /\ stack # <<>>
    /\ LET top == stack[Len(stack)]
       IN /\ top.i > Len(top.deps)
          /\ createGeometryThrows(top.solid)
    /\ stack' = <<>>
    /\ rpc' = "idle"
    /\ UNCHANGED <<rdata, processedSolids, todo, allMeshes, newModels,
                   usedAsDependencies, scene, models, applied, renders>>
    /\ UNCHANGED <<resolveVars, exportVars>>

\* createSolid lines 66-181: geometry, modifiers, the cache entry, and the
\* return to the caller (the dependency loop or renderModel's second pass).
CreateSolidReturn ==
    /\ rpc = "create" /\ stack # <<>>
    /\ LET top == stack[Len(stack)]
           meshOf(ops) ==
               Mesh(top.name, renders,
                    [i \in 1..Len(ops) |-> [op |-> ops[i].op, target |-> ops[i].target]])
           return(ops) ==
               /\ applied' = applied \o [i \in 1..Len(ops) |->
                                            [solid |-> top.name, target |-> ops[i].target,
                                             mesh |-> ops[i].mesh]]
               /\ processedSolids' = Put(processedSolids, top.name, meshOf(ops))
               /\ IF Len(stack) = 1
                  THEN /\ stack' = <<>>
                       /\ SecondPassBody(meshOf(ops))
                  ELSE /\ stack' = [SubSeq(stack, 1, Len(stack) - 1)
                                       EXCEPT ![Len(stack) - 1].i = @ + 1]
                       /\ UNCHANGED <<rpc, todo, allMeshes, newModels, scene>>
       IN /\ top.i > Len(top.deps)
          /\ ~createGeometryThrows(top.solid)
          /\ return(applyModifiers(Get(top.solid, kModifiers), rdata.solids,
                                   processedSolids))
    /\ UNCHANGED <<rdata, usedAsDependencies, models, renders>>
    /\ UNCHANGED <<resolveVars, exportVars>>

\* A third pass that keeps the dependencies marked visible: true.
hideUnlessVisible ==
    /\ rpc = "hide"
    /\ LET hidden == {allMeshes.o[i].v :
                          i \in {j \in 1..Len(allMeshes.o) :
                                    /\ allMeshes.o[j].k \in usedAsDependencies
                                    /\ Get(Get(rdata.solids, allMeshes.o[j].k), kVisible)
                                           # Bool(TRUE)}}
       IN /\ scene' = scene \ hidden
          /\ newModels' = SelectSeq(newModels, LAMBDA m : m \notin hidden)
    /\ rpc' = "finish"
    /\ UNCHANGED <<rdata, processedSolids, stack, todo, allMeshes, usedAsDependencies,
                   models, applied, renders>>
    /\ UNCHANGED <<resolveVars, exportVars>>

\* renderModel lines 174-192: the third pass.
HideDependencies ==
    /\ rpc = "hide"
    /\ LET hidden == {allMeshes.o[i].v :
                          i \in {j \in 1..Len(allMeshes.o) :
                                    allMeshes.o[j].k \in usedAsDependencies}}
       IN /\ scene' = scene \ hidden
          /\ newModels' = SelectSeq(newModels, LAMBDA m : m \notin hidden)
    /\ rpc' = "finish"
    /\ UNCHANGED <<rdata, processedSolids, stack, todo, allMeshes, usedAsDependencies,
                   models, applied, renders>>
    /\ UNCHANGED <<resolveVars, exportVars>>

\* renderModel lines 195-331: the merged final mesh, or the model list.
FinishRender ==
    /\ rpc = "finish"
    /\ IF Truthy(rdata.final) /\ newModels # <<>>
       THEN LET finalMesh == Mesh(W("final"), renders, <<>>)
            IN /\ scene' = (scene \ Range(newModels)) \cup {finalMesh}
               /\ models' = <<finalMesh>>
       ELSE /\ models' = newModels
            /\ UNCHANGED scene
    /\ rpc' = "idle"
    /\ UNCHANGED <<rdata, processedSolids, stack, todo, allMeshes, newModels,
                   usedAsDependencies, applied, renders>>
    /\ UNCHANGED <<resolveVars, exportVars>>

RenderNext ==
    \/ RenderModel
    \/ RenderParseError
    \/ CollectUsed
    \/ CreateSolidCached
    \/ CreateSolidCall
    \/ DependencySkip
    \/ DependencyCall
    \/ CreateSolidThrow
    \/ CreateSolidReturn
    \/ HideDependencies
    \/ FinishRender

-----------------------------------------------------------------------------
(* Input documents *)

\* A property that is present only when it has a value.
Opt(k, v) == IF v = Undefined THEN <<>> ELSE << <<k, v>> >>
Name(a) == Str(W(a))
\* A document: its solids, stamps and final sections (undefined when absent).
Doc(solids, stamps) == [solids |-> solids, stamps |-> stamps, final |-> Undefined]

kDiameter == W("diameter")
SolidNames == <<W("a"), W("b"), W("c")>>

\* "x + 1"
PlusOne(a) == Str(<<a, " ", "+", " ", "1">>)
\* [0, 0, v]
ZElem(v) == Arr(<<Num(0), Num(0), v>>)

\* Three solids a, b, c, each with the properties props[i].
ThreeSolids(props) ==
    Doc(O([i \in 1..3 |-> <<SolidNames[i], O(props[i])>>]), Undefined)

\* Scalar references: diameter is absent, a number, the name of a solid
\* (existing or not) or an arithmetic expression over a solid's name.
DiameterValues ==
    {Undefined, Num(2), Name("zz")}
    \cup {Name(x) : x \in {"a", "b", "c"}}
    \cup {PlusOne(x) : x \in {"a", "b", "c"}}
DiameterDocs ==
    {ThreeSolids(<<Opt(kDiameter, x), Opt(kDiameter, y), Opt(kDiameter, z)>>) :
        x \in DiameterValues, y \in DiameterValues, z \in DiameterValues}

\* Array references: center is absent, literal, a whole-property reference,
\* or an array whose last element is a reference or an expression.
CenterValues ==
    {Undefined, Arr(<<Num(1), Num(2), Num(5)>>)}
    \cup {Name(x) : x \in {"a", "b", "c"}}
    \cup {ZElem(Name(x)) : x \in {"a", "b", "c"}}
    \cup {ZElem(PlusOne(x)) : x \in {"a", "b", "c"}}
CenterDocs ==
    {ThreeSolids(<<Opt(kCenter, x), Opt(kCenter, y), Opt(kCenter, z)>>) :
        x \in CenterValues, y \in CenterValues, z \in CenterValues}

\* Short referenced values: a.center is [0, 0, b] and b.center has no third
\* element: a shorter array, a number, null, a bare name or an expression;
\* c.center is absent, a number, an array, or leads back to a or b.
ShortValues ==
    {Arr(<<>>), Arr(<<Num(7)>>), Arr(<<Name("c")>>), Num(4), Null,
     Name("c"), Name("zz"), PlusOne("c")}
ShortDocs ==
    {ThreeSolids(<<Opt(kCenter, ZElem(Name("b"))), Opt(kCenter, y), Opt(kCenter, z)>>) :
        y \in ShortValues,
        z \in {Undefined, Num(2), Arr(<<Num(1), Num(2), Num(5)>>), ZElem(Name("a")), Name("b")}}

\* Property keys that every object inherits: a.toString is the name b, or an
\* array holding it, and b has no property of its own.
InheritedKeyDocs ==
    {ThreeSolids(<< << <<W("toString"), v>> >>, <<>>, <<>> >>) :
        v \in {Name("b"), Arr(<<Name("b")>>)}}

\* The shape property, literal or spelled like a solid's name.
ShapeValues == {Undefined, Name("sphere"), Name("a"), Name("b")}
ShapeDocs ==
    {ThreeSolids(<<Opt(kShape, x), Opt(kShape, y) \o Opt(kDiameter, Num(2)),
                   Opt(kShape, z)>>) :
        x \in ShapeValues, y \in ShapeValues, z \in ShapeValues}

\* Chains S1.center = [0,0,S2], ..., Sk.center = [1,2,5], declared from S1
\* to Sk or from Sk to S1, optionally headed by a solid whose center is S1.
MaxChain == 4
ChainNames == <<W("top"), W("middle"), W("lower"), W("base"), W("floor"), W("ground")>>
ChainLiteral == Arr(<<Num(1), Num(2), Num(5)>>)
Reverse(q) == [i \in 1..Len(q) |-> q[Len(q) + 1 - i]]
ChainSolids(k) ==
    [i \in 1..k |->
        <<ChainNames[i],
          O(<< <<kCenter, IF i = k THEN ChainLiteral ELSE ZElem(Str(ChainNames[i + 1]))>> >>)>>]
ChainDocs ==
    {Doc(O(IF rev THEN Reverse(head \o ChainSolids(k)) ELSE head \o ChainSolids(k)),
         Undefined) :
        k \in 1..MaxChain, rev \in BOOLEAN,
        head \in {<<>>, << <<W("a"), O(<< <<kCenter, Str(ChainNames[1])>> >>)>> >>}}

\* Clones: each of a, b, c clones nothing, a solid, or a missing solid, and
\* has no own property, an own diameter, or an own shape; a may also have
\* the empty shape ("shape:" without a value).
CloneValues == {Undefined, Name("zz")} \cup {Name(x) : x \in {"a", "b", "c"}}
OwnProps(i) ==
    {<<>>, << <<kDiameter, Num(i)>> >>, << <<kShape, Name("sphere")>> >>}
    \cup (IF i = 1 THEN {<< <<kShape, Null>> >>} ELSE {})
CloneDocs ==
    {ThreeSolids(<<Opt(kClone, x) \o p, Opt(kClone, y) \o q, Opt(kClone, z) \o r>>) :
        x \in CloneValues, y \in CloneValues, z \in CloneValues,
        p \in OwnProps(1), q \in OwnProps(2), r \in OwnProps(3)}

\* Stamps: one definition "hole" with a parameter $r and local shapes d and
\* e; hosts a and a_b with instances named c and b_c; a solid k that clones
\* host a.
kHole == W("hole")
kDifference == W("difference")
HostAB == <<"a", "_", "b">>
InstBC == <<"b", "_", "c">>
HoleDef(nested, parent) ==
    O(<< <<kParams, Arr(<<Str(<<"$", "r">>)>>)>>,
         <<kShapes,
           O(<< <<W("d"), O(<< <<kShape, Name("cylinder")>>,
                               <<kDiameter, Str(<<"$", "r">>)>>,
                               <<kCenter, Arr(<<Num(1), Num(0), Num(0)>>)>> >>
                            \o (IF nested
                                THEN << <<kStamps, O(<< <<W("n"), Name("hole")>> >>)>> >>
                                ELSE <<>>))>>,
                <<W("e"), O(<< <<kShape, Name("sphere")>>,
                               <<kModifiers,
                                 O(<< <<kBoolean,
                                        Arr(<<O(<< <<kDifference, Name("d")>> >>)>>)>> >>)>> >>)>> >>)>> >>
      \o (IF parent
          THEN << <<kParent,
                    O(<< <<kModifiers,
                           O(<< <<kBoolean,
                                  Arr(<<O(<< <<kDifference, Name("d")>> >>)>>)>> >>)>> >>)>> >>
          ELSE <<>>))
\* An instance, written as the stamp's name or as {stamp, r, at, rotate}.
Instances(placed) ==
    IF placed
    THEN O(<< <<kStamp, Name("hole")>>, <<W("r"), Num(3)>>,
              <<kAt, Arr(<<Num(1), Num(0), Num(0)>>)>>,
              <<kRotate, Arr(<<Num(0), Num(0), Num(90)>>)>> >>)
    ELSE Name("hole")
InstanceNames == {<<>>, <<W("c")>>, <<InstBC>>, <<W("c"), InstBC>>}
Host(name, insts, placed) ==
    <<name, O(<< <<kShape, Name("cuboid")>> >>
              \o (IF insts = <<>> THEN <<>>
                  ELSE << <<kStamps,
                            O([i \in 1..Len(insts) |-> <<insts[i], Instances(placed)>>])>> >>))>>
StampDocs ==
    {Doc(O(<<Host(W("a"), ia, placed)>>
           \o (IF hasAB THEN <<Host(HostAB, iab, placed)>> ELSE <<>>)
           \o (IF cloner THEN << <<W("k"), O(<< <<kClone, Name("a")>> >>)>> >> ELSE <<>>)),
         IF section THEN O(<< <<kHole, HoleDef(nested, parent)>> >>) ELSE Undefined) :
        ia \in InstanceNames, iab \in InstanceNames, hasAB \in BOOLEAN,
        cloner \in BOOLEAN, section \in BOOLEAN, nested \in BOOLEAN,
        parent \in BOOLEAN, placed \in BOOLEAN}

\* The same object with one key renamed.
RenameKey(obj, from, to) ==
    Obj([i \in 1..Len(obj.o) |->
            IF obj.o[i].k = from THEN [k |-> to, v |-> obj.o[i].v] ELSE obj.o[i]])
\* Legacy stamps: host a with the instance c of a definition that declares
\* its local shapes under "solids", as the guide to stamps writes it.
LegacyStampDocs ==
    {Doc(O(<<Host(W("a"), <<W("c")>>, placed)>>),
         O(<< <<kHole, RenameKey(HoleDef(FALSE, parent), kShapes, kSolids)>> >>)) :
        parent \in BOOLEAN, placed \in BOOLEAN}

\* Hosts with boolean operations of their own: host a subtracts the solid k,
\* in the list or in the grouped format, and has one or two instances of a
\* definition with parent modifiers.
HostBooleans ==
    {Arr(<<O(<< <<kDifference, Name("k")>> >>)>>), O(<< <<kDifference, Name("k")>> >>)}
HostBooleanDocs ==
    {Doc(O(<< <<W("a"), Put(Host(W("a"), insts, FALSE)[2], kModifiers,
                            O(<< <<kBoolean, boolean>> >>))>>,
              <<W("k"), O(<< <<kShape, Name("sphere")>> >>)>> >>),
         O(<< <<kHole, HoleDef(FALSE, TRUE)>> >>)) :
        boolean \in HostBooleans, insts \in {<<W("c")>>, <<W("c"), InstBC>>}}

\* Stamp centers: host a with a placed and rotated instance c (r = 3) of a
\* definition whose shape d is rotated by 45 degrees and has a center whose
\* first component is a number, the bare parameter, arithmetic over the
\* parameter, or arithmetic over the solid k.
ParamR == <<"$", "r">>
StampCenterValues ==
    {Num(2), Str(ParamR), Str(ParamR \o <<" ", "*", " ", "2">>), PlusOne("k")}
CenterHole(first) ==
    O(<< <<kParams, Arr(<<Str(ParamR)>>)>>,
         <<kShapes,
           O(<< <<W("d"), O(<< <<kShape, Name("cylinder")>>,
                               <<kCenter, Arr(<<first, Num(0), Num(0)>>)>>,
                               <<kRotation, Arr(<<Num(0), Num(0), Num(45)>>)>> >>)>> >>)>> >>)
StampCenterDocs ==
    {Doc(O(<<Host(W("a"), <<W("c")>>, TRUE), <<W("k"), O(<< <<kDiameter, Num(2)>> >>)>> >>),
         O(<< <<kHole, CenterHole(first)>> >>)) :
        first \in StampCenterValues}

\* Stamp parameters: host a with the instance c of a definition that declares
\* $r and $h and writes them into its shape d. The instance supplies up to
\* MaxSupplied values under distinct keys among r, h and x, each a number or
\* null, with the key "at" before them or not.
MaxSupplied == 2
ParamH == <<"$", "h">>
kHeight == W("height")
ParamHole ==
    O(<< <<kParams, Arr(<<Str(ParamR), Str(ParamH)>>)>>,
         <<kShapes,
           O(<< <<W("d"), O(<< <<kShape, Name("cylinder")>>,
                               <<kDiameter, Str(ParamR)>>,
                               <<kHeight, Str(ParamH)>> >>)>> >>)>> >>)
SuppliedKeys == {W("r"), W("h"), W("x")}
Supplied ==
    UNION {{[i \in 1..n |-> <<ks[i], IF nulls[i] THEN Null ELSE Num(i + 4)>>] :
               ks \in {f \in [1..n -> SuppliedKeys] : \A i, j \in 1..n : i # j => f[i] # f[j]},
               nulls \in [1..n -> BOOLEAN]} :
           n \in 0..MaxSupplied}
ParamDocs ==
    {Doc(O(<< <<W("a"), O(<< <<kShape, Name("cuboid")>>,
                             <<kStamps,
                               O(<< <<W("c"),
                                      O(<< <<kStamp, Name("hole")>> >>
                                        \o (IF withAt
                                            THEN << <<kAt, Arr(<<Num(0), Num(0), Num(0)>>)>> >>
                                            ELSE <<>>)
                                        \o supplied)>> >>)>> >>)>> >>),
         O(<< <<kHole, ParamHole>> >>)) :
        supplied \in Supplied, withAt \in BOOLEAN}

\* Boolean targets: a subtracts b and adds c, in the list or in the grouped
\* format; b and c exist, and b may itself have a property "difference", a
\* property "boolean", and operations of its own.
BooleanTargetDocs ==
    {Doc(O(<< <<W("a"), O(<< <<kShape, Name("cuboid")>>,
                             <<kModifiers,
                               O(<< <<kBoolean,
                                      IF grouped
                                      THEN O(<< <<kDifference, Name("b")>>,
                                                <<W("union"), Name("c")>> >>)
                                      ELSE Arr(<<O(<< <<kDifference, Name("b")>> >>),
                                                 O(<< <<W("union"), Name("c")>> >>)>>)>> >>)>> >>)>>,
              <<W("b"), O(<< <<kShape, Name("sphere")>> >>
                          \o (IF own THEN << <<kDifference, Num(5)>>, <<kBoolean, Num(6)>> >>
                              ELSE <<>>)
                          \o (IF ops
                              THEN << <<kModifiers,
                                        O(<< <<kBoolean,
                                               Arr(<<O(<< <<W("union"), Name("c")>> >>)>>)>> >>)>> >>
                              ELSE <<>>))>>,
              <<W("c"), O(<< <<kShape, Name("sphere")>> >>)>> >>),
         Undefined) :
        grouped \in BOOLEAN, own \in BOOLEAN, ops \in BOOLEAN}

\* Stamp targets: host a with the instance c of a definition whose shape e
\* subtracts the local shape d, the solid k, or "toString", e being declared
\* before or after d.
TargetHole(target, first) ==
    LET d == <<W("d"), O(<< <<kShape, Name("cylinder")>> >>)>>
        e == <<W("e"), O(<< <<kShape, Name("sphere")>>,
                            <<kModifiers,
                              O(<< <<kBoolean,
                                     Arr(<<O(<< <<kDifference, Str(target)>> >>)>>)>> >>)>> >>)>>
    IN O(<< <<kShapes, O(IF first THEN <<e, d>> ELSE <<d, e>>)>> >>)
StampTargetDocs ==
    {Doc(O(<<Host(W("a"), <<W("c")>>, FALSE), <<W("k"), O(<< <<kShape, Name("sphere")>> >>)>> >>),
         O(<< <<kHole, TargetHole(target, first)>> >>)) :
        target \in {W("d"), W("k"), W("toString")}, first \in BOOLEAN}

\* Expressions: a.diameter is an arithmetic string, well formed or not, with
\* or without a reference; b.diameter is 2.
Precedence == Str(<<"2", " ", "+", " ", "3", " ", "*", " ", "4">>)
Grouping == Str(<<"(", "2", "+", "3", ")", "*", "4">>)
Disallowed == Str(<<"2", ";", " ", "3">>)
LeftToRight == Str(<<"8", " ", "-", " ", "4", " ", "/", " ", "2", " ", "-", " ", "1">>)
Fraction == Str(<<"1", ".", "5", " ", "*", " ", "2">>)
Power == Str(<<"2", " ", "*", "*", " ", "3">>)
TimesTwo == Str(<<"b", " ", "*", " ", "2">>)
Dangling == Str(<<"2", " ", "+">>)
Unclosed == Str(<<"(", "2">>)
ByZero == Str(<<"1", " ", "/", " ", "0">>)
Unresolved == PlusOne("zz")
Padded == Str(<<" ", "zz", " ", "+", " ", "1">>)
ExpressionValues ==
    {Precedence, Grouping, Disallowed, LeftToRight, Fraction, Power, TimesTwo,
     Dangling, Unclosed, ByZero, Unresolved, Padded}
ExpressionDocs ==
    {ThreeSolids(<< << <<kDiameter, e>> >>, << <<kDiameter, Num(2)>> >>, <<>> >>) :
        e \in ExpressionValues}

\* Clone chains s1 clones s2, ..., sk clones the last solid, which has a
\* diameter, declared from s1 on so that each pass resolves one link; k is
\* just below, at and just above the pass bound.
LinkName(i) == <<"s">> \o NatToStr(i)
CloneChain(k) ==
    [i \in 1..(k + 1) |->
        <<LinkName(i),
          O(IF i = k + 1 THEN << <<kDiameter, Num(2)>> >>
            ELSE << <<kClone, Str(LinkName(i + 1))>> >>)>>]
CloneChainDocs ==
    {Doc(O(CloneChain(k)), Undefined) : k \in (maxPasses - 1)..(maxPasses + 1)}

\* A number that JSON cannot write: a has the diameter .inf and clones
\* nothing or b.
InfinityDocs ==
    {ThreeSolids(<<Opt(kClone, x) \o << <<kDiameter, Infinity>> >>,
                   << <<kDiameter, Num(2)>> >>, <<>> >>) :
        x \in {Undefined, Name("b")}}

\* A document without a solids section.
EmptyDoc == Doc(Undefined, Undefined)

Docs == DiameterDocs \cup CenterDocs \cup ShapeDocs \cup ChainDocs \cup CloneDocs
        \cup StampDocs \cup ExpressionDocs \cup InfinityDocs \cup CloneChainDocs
        \cup LegacyStampDocs \cup HostBooleanDocs \cup StampCenterDocs
        \cup StampTargetDocs \cup ParamDocs \cup ShortDocs
    \cup InheritedKeyDocs \cup BooleanTargetDocs
        \cup {EmptyDoc}

-----------------------------------------------------------------------------
(* qualitySettings.js and exportSTL (controls.js)                          *)

QUALITY_PRESETS ==
    O(<< <<W("low"), Num(32)>>, <<W("medium"), Num(64)>>, <<W("high"), Num(128)>>,
         <<W("ultra"), Num(256)>> >>)

\* a || b
Or(a, b) == IF Truthy(a) THEN a ELSE b

\* getSegmentCount() when the two settings have the given values
SegmentCount(force, current) ==
    IF force # Null
    THEN Or(PropRead(QUALITY_PRESETS, ToStr(force)), Num(128))
    ELSE Or(PropRead(QUALITY_PRESETS, ToStr(current)), Num(128))
getSegmentCount == SegmentCount(forceQuality, currentQuality)

\* setQuality(quality): the new value of currentQuality
setQuality(quality) ==
    IF HasOwn(QUALITY_PRESETS, ToStr(quality)) THEN quality ELSE currentQuality

\* What a renderModel call can do with the text in the editor: fail in
\* parseYAML (a negative outcome), which leaves the model list alone, or
\* build up to MaxModels visible models.
MaxModels == 2
RenderOutcomes == -1..MaxModels

\* renderModel() called by `by`, as its callers see it: it throws nothing
\* (lines 84-349 are one try/catch), sets the model list unless parseYAML
\* failed, and its shapes are built with the segment count getSegmentCount()
\* returns during the call.
renderModel(by, outcome, force, current) ==
    /\ models' = IF outcome < 0 THEN models
                 ELSE [i \in 1..outcome |-> Mesh(<<"model", i>>, renders, <<>>)]
    /\ rendered' = [by |-> by, outcome |-> outcome, segments |-> SegmentCount(force, current)]

ExportIdle ==
    /\ currentQuality = Name("low")
    /\ forceQuality = Null
    /\ xpc = "idle"
    /\ originalQuality = Undefined
    /\ btnDisabled = FALSE
    /\ rendered = [by |-> "nobody", outcome |-> 0, segments |-> Num(0)]

unchangedByExport ==
    UNCHANGED <<resolveVars, rpc, rdata, processedSolids, stack, todo, allMeshes,
                newModels, usedAsDependencies, scene, applied, renders>>

\* The values the quality selector can send.
QualityValues ==
    {Name(q) : q \in {"low", "medium", "high", "ultra", "toString", "best"}}

\* events.js lines 190-193: the change event of the quality selector
QualityChange ==
    /\ xpc = "idle"
    /\ \E quality \in QualityValues, outcome \in RenderOutcomes :
           /\ currentQuality' = setQuality(quality)
           /\ renderModel("quality", outcome, forceQuality, setQuality(quality))
    /\ UNCHANGED <<forceQuality, xpc, originalQuality, btnDisabled>>
    /\ unchangedByExport

\* events.js line 186: the render button
RenderClick ==
    /\ xpc = "idle"
    /\ \E outcome \in RenderOutcomes :
           renderModel("viewport", outcome, forceQuality, currentQuality)
    /\ UNCHANGED <<currentQuality, forceQuality, xpc, originalQuality, btnDisabled>>
    /\ unchangedByExport

\* exportSTL lines 52-55: nothing to export
ExportNothing ==
    /\ xpc = "idle" /\ Len(models) = 0
    /\ UNCHANGED <<models, exportVars>>
    /\ unchangedByExport

\* exportSTL lines 58-69: the button is disabled, the quality saved and the
\* override set
ExportForce ==
    /\ xpc = "idle" /\ Len(models) # 0
    /\ btnDisabled' = TRUE
    /\ originalQuality' = currentQuality
    /\ forceQuality' = Name("ultra")
    /\ xpc' = "forced"
    /\ UNCHANGED <<models, currentQuality, rendered>>
    /\ unchangedByExport

\* exportSTL line 70: the re-render for the export
ExportRender ==
    /\ xpc = "forced"
    /\ \E outcome \in RenderOutcomes :
           renderModel("export", outcome, forceQuality, currentQuality)
    /\ xpc' = "rendered"
    /\ UNCHANGED <<currentQuality, forceQuality, originalQuality, btnDisabled>>
    /\ unchangedByExport

\* exportSTL lines 73-218: the geometry is merged, written and downloaded
ExportWrite ==
    /\ xpc = "rendered"
    /\ xpc' = "written"
    /\ UNCHANGED <<models, currentQuality, forceQuality, originalQuality, btnDisabled,
                   rendered>>
    /\ unchangedByExport

\* exportSTL lines 73-218 throwing (a model without geometry, a failing
\* download): control passes to the catch clause
ExportThrow ==
    /\ xpc = "rendered"
    /\ xpc' = "caught"
    /\ UNCHANGED <<models, currentQuality, forceQuality, originalQuality, btnDisabled,
                   rendered>>
    /\ unchangedByExport

\* An error path that leaves the override in place.
catchWithoutRestore ==
    /\ xpc = "caught"
    /\ \E outcome \in RenderOutcomes :
           renderModel("restore", outcome, forceQuality, currentQuality)
    /\ xpc' = "finally"
    /\ UNCHANGED <<currentQuality, forceQuality, originalQuality, btnDisabled>>
    /\ unchangedByExport

\* exportSTL lines 226-232: the catch clause clears the override and renders
ExportCatch ==
    /\ xpc = "caught"
    /\ forceQuality' = Null
    /\ \E outcome \in RenderOutcomes :
           renderModel("restore", outcome, Null, currentQuality)
    /\ xpc' = "finally"
    /\ UNCHANGED <<currentQuality, originalQuality, btnDisabled>>
    /\ unchangedByExport

\* exportSTL lines 220-224: the override is cleared and the viewport rendered
ExportRestore ==
    /\ xpc = "written"
    /\ forceQuality' = Null
    /\ \E outcome \in RenderOutcomes :
           renderModel("restore", outcome, Null, currentQuality)
    /\ xpc' = "finally"
    /\ UNCHANGED <<currentQuality, originalQuality, btnDisabled>>
    /\ unchangedByExport

\* exportSTL lines 233-237: the button is restored
ExportFinally ==
    /\ xpc = "finally"
    /\ btnDisabled' = FALSE
    /\ xpc' = "idle"
    /\ UNCHANGED <<models, currentQuality, forceQuality, originalQuality, rendered>>
    /\ unchangedByExport

ExportNext ==
    \/ QualityChange
    \/ RenderClick
    \/ ExportNothing
    \/ ExportForce
    \/ ExportRender
    \/ ExportWrite
    \/ ExportThrow
    \/ ExportCatch
    \/ ExportRestore
    \/ ExportFinally

-----------------------------------------------------------------------------
(* Specification of parseYAML *)

RenderIdle ==
    /\ rpc = "idle"
    /\ rdata = Undefined
    /\ processedSolids = Obj(<<>>)
    /\ stack = <<>>
    /\ todo = <<>>
    /\ allMeshes = Obj(<<>>)
    /\ newModels = <<>>
    /\ usedAsDependencies = {}
    /\ scene = {}
    /\ models = <<>>
    /\ applied = <<>>
    /\ renders = 0

Init ==
    /\ doc \in Docs
    /\ pc = stageOrder[1]
    /\ data = doc
    /\ work = doc.solids
    /\ pass = 0
    /\ hasChanges = TRUE
    /\ stages = <<>>
    /\ input = doc
    /\ sharedSolids = TRUE
    /\ sharedWork = TRUE
    /\ RenderIdle
    /\ ExportIdle

Next == ResolveNext

Spec == Init /\ [][Next]_vars

-----------------------------------------------------------------------------
(* Specification of renderModel *)

\* Boolean graphs over a, b, c: each solid has no operation, one operation
\* on a solid (existing or not), or two operations on the other two solids;
\* visible is absent, true or false (absent or true for c).  Solid a also
\* uses the grouped format.
kUnion == W("union")
Operation(op, target) == O(<< <<op, Str(target)>> >>)
OperationLists(i) ==
    {Undefined}
    \cup {Arr(<<Operation(kDifference, t)>>) : t \in Range(SolidNames) \cup {W("zz")}}
    \cup {Arr(<<Operation(kDifference, SolidNames[(i % 3) + 1]),
                Operation(kUnion, SolidNames[((i + 1) % 3) + 1])>>)}
    \cup (IF i = 1
          THEN {O(<< <<kDifference, Arr(<<Name("b"), Name("c")>>)>> >>),
                O(<< <<kUnion, Name("b")>> >>)}
          ELSE {})
VisibleValues == {Undefined, Bool(TRUE), Bool(FALSE)}
RenderSolid(visible, operations) ==
    << <<kShape, Name("cuboid")>> >>
    \o Opt(kVisible, visible)
    \o (IF operations = Undefined THEN <<>>
        ELSE << <<kModifiers, O(<< <<kBoolean, operations>> >>)>> >>)
GraphDocs ==
    {ThreeSolids(<<RenderSolid(va, oa), RenderSolid(vb, ob), RenderSolid(vc, oc)>>) :
        va \in VisibleValues, vb \in VisibleValues, vc \in {Undefined, Bool(TRUE)},
        oa \in OperationLists(1), ob \in OperationLists(2), oc \in OperationLists(3)}
\* Solid a names "toString", which is no solid but a member every object
\* inherits; b has no operation or one on a.
InheritedDocs ==
    {ThreeSolids(<<RenderSolid(Undefined, Arr(<<Operation(kDifference, W("toString"))>>)),
                   RenderSolid(Undefined, ob), RenderSolid(Undefined, Undefined)>>) :
        ob \in {Undefined, Arr(<<Operation(kDifference, W("a"))>>)}}
\* Extrusions: b is an extrusion whose poly profile has a list of points, a
\* number, or a name that resolves to nothing; a is a cuboid declared before or
\* after b that subtracts b or not; c is a cuboid.
PointsValues ==
    {Arr(<<Arr(<<Num(0), Num(0)>>), Arr(<<Num(1), Num(0)>>), Arr(<<Num(0), Num(1)>>)>>),
     Num(5), Name("zz")}
Extrusion(points) ==
    O(<< <<kShape, Name("extrusion")>>,
         <<W("profile"), O(<< <<W("type"), Name("poly")>>, <<W("points"), points>> >>)>> >>)
ExtrusionDocs ==
    {Doc(O((IF first THEN << <<W("b"), Extrusion(points)>> >> ELSE <<>>)
           \o << <<W("a"), O(RenderSolid(Undefined, oa))>> >>
           \o (IF first THEN <<>> ELSE << <<W("b"), Extrusion(points)>> >>)
           \o << <<W("c"), O(RenderSolid(Undefined, Undefined))>> >>),
         Undefined) :
        points \in PointsValues, first \in BOOLEAN,
        oa \in {Undefined, Arr(<<Operation(kDifference, W("b"))>>)}}
\* Documents with a final section.
FinalDocs ==
    {[ThreeSolids(<<RenderSolid(va, oa), RenderSolid(vb, ob), RenderSolid(Undefined, Undefined)>>)
         EXCEPT !.final = O(<<>>)] :
        va \in VisibleValues, vb \in VisibleValues,
        oa \in OperationLists(1), ob \in OperationLists(2)}
\* A document parseYAML rejects.
RejectedDoc == ThreeSolids(<< << <<kDiameter, PlusOne("a")>> >>, <<>>, <<>> >>)

RenderDocs ==
    GraphDocs \cup FinalDocs \cup InheritedDocs \cup ExtrusionDocs \cup {EmptyDoc, RejectedDoc}

InitRender ==
    /\ doc \in RenderDocs
    /\ pc = stageOrder[1]
    /\ data = doc
    /\ work = doc.solids
    /\ pass = 0
    /\ hasChanges = TRUE
    /\ stages = <<>>
    /\ input = doc
    /\ sharedSolids = TRUE
    /\ sharedWork = TRUE
    /\ RenderIdle
    /\ ExportIdle

NextRender == ResolveNext \/ RenderNext

SpecRender == InitRender /\ [][NextRender]_vars

-----------------------------------------------------------------------------
(* Specification of exportSTL and the quality selector *)

InitExport ==
    /\ doc = EmptyDoc
    /\ pc = stageOrder[1]
    /\ data = doc
    /\ work = doc.solids
    /\ pass = 0
    /\ hasChanges = TRUE
    /\ stages = <<>>
    /\ input = doc
    /\ sharedSolids = TRUE
    /\ sharedWork = TRUE
    /\ RenderIdle
    /\ ExportIdle

NextExport == ExportNext

SpecExport == InitExport /\ [][NextExport]_vars

-----------------------------------------------------------------------------
(* Properties of parseYAML *)

Done == pc = "done"
Failed == pc = "failed"
\* A solid of the input document and of the document as rewritten so far.
In(name) == Get(doc.solids, name)
Out(name) == Get(data.solids, name)
Completed(stage) == \E i \in 1..Len(stages) : stages[i] = stage
IsPrefix(p, q) == Len(p) <= Len(q) /\ \A i \in 1..Len(p) : p[i] = q[i]

\* The document is the chain of k solids, declared in either order.
IsChain(k) ==
    doc \in {Doc(O(ChainSolids(k)), Undefined), Doc(O(Reverse(ChainSolids(k))), Undefined)}

\* C1 (as stated): in a chain S1.center = [0,0,S2], ..., Sk.center = [1,2,5]
\* every Si.center[2] is the number 5 once resolution has finished.
C1_ChainedElementsResolve ==
    \A k \in 1..MaxChain :
        (IsChain(k) /\ Done) =>
            \A i \in 1..k : At(Get(Out(ChainNames[i]), kCenter), 3) = Num(5)

\* The solid a solid's diameter refers to, by name or inside "x + 1".
RefersTo(n, m) == Get(In(n), kDiameter) \in {Str(m), PlusOne(m[1])}
SolidSet == {SolidNames[i] : i \in 1..Len(SolidNames)}
\* n lies on a cycle of diameter references.
OnCycle(n) ==
    \/ RefersTo(n, n)
    \/ \E m \in SolidSet : RefersTo(n, m) /\ RefersTo(m, n)
    \/ \E m, o \in SolidSet : RefersTo(n, m) /\ RefersTo(m, o) /\ RefersTo(o, n)

\* C2 (as stated): when diameter references form a cycle, resolution does not
\* raise, and when it has finished every value on the cycle is the string it
\* was in the input.
C2_CircularReferencesNonFatal ==
    \A n \in SolidSet :
        (doc \in DiameterDocs /\ OnCycle(n)) =>
            /\ ~Failed
            /\ Done => Get(Out(n), kDiameter) = Get(In(n), kDiameter)

\* C3 (as stated): when a clones b and b clones a, neither a nor b carries a
\* clone property once clone resolution has returned.
C3_CircularCloneStripped ==
    (/\ doc \in CloneDocs
     /\ Get(In(W("a")), kClone) = Name("b")
     /\ Get(In(W("b")), kClone) = Name("a")
     /\ Completed("clones")) =>
        /\ pass <= maxPasses
        /\ ~HasOwn(Out(W("a")), kClone)
        /\ ~HasOwn(Out(W("b")), kClone)

\* The number of shapes the hosts of the document instantiate: every
\* instance of a host names the stamp "hole", which has two local shapes.
RECURSIVE InstantiatedFrom(_, _)
InstantiatedFrom(solids, i) ==
    IF i > Len(solids) THEN 0
    ELSE Len(Entries(Get(solids[i].v, kStamps)))
              * Len(Entries(Get(Get(doc.stamps, kHole), kShapes)))
         + InstantiatedFrom(solids, i + 1)
Instantiated == InstantiatedFrom(Entries(doc.solids), 1)

\* C4 (as stated): expanded shapes of distinct (host, instance) pairs get
\* distinct names, so the solids map holds the input's solids and one entry
\* for every instantiated shape.
C4_StampNamesCollisionFree ==
    (doc \in StampDocs /\ Truthy(doc.stamps) /\ Completed("stamps")) =>
        Len(Entries(data.solids)) = Len(Entries(doc.solids)) + Instantiated

\* The document has a solid k that clones host a, and a instantiates the
\* stamp "hole" of the stamps section.
ClonerOfStampedHost ==
    /\ doc \in StampDocs
    /\ Truthy(doc.stamps)
    /\ HasOwn(doc.solids, W("k"))
    /\ HasOwn(In(W("a")), kStamps)
\* The names of the solids of the document as rewritten so far.
OutNames == {Entries(data.solids)[i].k : i \in 1..Len(Entries(data.solids))}

\* C5 (amended): the stages complete in the order stamp expansion, clone
\* resolution, reference resolution, and all three run on a document with
\* solids.  A solid k that clones a stamped host a is still the unmerged
\* clone when expansion runs: it gets no expanded shapes of its own, and
\* clone resolution then makes it a copy of the expanded host.
C5_StampsThenClonesThenReferences ==
    /\ IsPrefix(stages, <<"stamps", "clones", "refs">>)
    /\ (Done /\ Truthy(doc.solids)) => stages = <<"stamps", "clones", "refs">>
    /\ (ClonerOfStampedHost /\ Completed("stamps")) =>
           /\ \A n \in OutNames : ~IsPrefix(<<"k", "_">>, n)
           /\ ~HasOwn(Out(W("k")), kStamps)
           /\ ~Completed("clones") /\ pass = 0 => Out(W("k")) = In(W("k"))
           /\ Completed("clones") /\ pass = 0 => Out(W("k")) = Out(W("a"))

\* C5 (as stated): the stages complete in the order clone resolution, stamp
\* expansion, reference resolution, and a solid that clones a stamped host
\* has inherited the stamps mapping when expansion runs.
C5_ClonesThenStampsThenReferences ==
    /\ IsPrefix(stages, <<"clones", "stamps", "refs">>)
    /\ (ClonerOfStampedHost /\ pc = "stamps") => HasOwn(Out(W("k")), kStamps)

\* C5 (witness): resolution has finished on a document whose solid k clones
\* a stamped host; k carries the host's boolean operations on the host's
\* expanded shapes.
C5_ClonerCopiesExpandedHost ==
    /\ ClonerOfStampedHost
    /\ Done
    /\ stages = <<"stamps", "clones", "refs">>
    /\ \E n \in OutNames : IsPrefix(<<"a", "_">>, n)
    /\ Truthy(Get(Out(W("k")), kModifiers))
    /\ Get(Out(W("k")), kModifiers) = Get(Out(W("a")), kModifiers)

\* C6 (as stated): after resolution no solid of the output carries a stamps
\* property.
C6_NoStampsAfterResolve ==
    Done => \A i \in 1..Len(Entries(data.solids)) :
                ~HasOwn(Entries(data.solids)[i].v, kStamps)

\* C10 (as stated): when A.p is the name of an existing solid B and B.p is
\* defined, A.p equals B.p once resolution has finished.
C10_DirectReferenceCopies ==
    Done =>
        \A i, j \in 1..Len(Entries(doc.solids)) :
            LET A == Entries(doc.solids)[i]
                B == Entries(doc.solids)[j]
            IN \A x \in 1..Len(Entries(A.v)) :
                   LET p == Entries(A.v)[x].k
                   IN (Entries(A.v)[x].v = Str(B.k) /\ HasOwn(B.v, p)) =>
                          Get(Out(A.k), p) = Get(Out(B.k), p)

\* The solids a property value mentions: the identifiers of a string, or of
\* the string elements of an array.
Mentions(v) ==
    IF IsStr(v) THEN Range(MatchIdentifiers(v.s, 1))
    ELSE IF IsArr(v)
    THEN UNION {IF IsStr(v.a[j]) THEN Range(MatchIdentifiers(v.a[j].s, 1)) ELSE {} :
                   j \in 1..Len(v.a)}
    ELSE {}
DocSolids == {Entries(doc.solids)[i].k : i \in 1..Len(Entries(doc.solids))}
\* The solids X.p mentions, and the solids reached from them through p.
Successors(X, p) == Mentions(Get(In(X), p)) \cap DocSolids
RECURSIVE ReachSet(_, _, _)
ReachSet(S, p, n) ==
    IF n = 0 THEN S
    ELSE ReachSet(S \cup UNION {Successors(X, p) : X \in S}, p, n - 1)
ReachPlus(X, p) == ReachSet(Successors(X, p), p, Cardinality(DocSolids))
\* The references of A.p lead into a cycle of references through p.
CycleFrom(A, p) == \E X \in {A} \cup ReachPlus(A, p) : X \in ReachPlus(X, p)

\* C10 (amended): when A.p is the name of an existing solid B, B.p is
\* defined, p is neither shape nor clone, and the references of A.p do not
\* lead into a cycle, A.p equals B.p once resolution has finished.
C10_DirectReferenceCopiesAcyclic ==
    Done =>
        \A i, j \in 1..Len(Entries(doc.solids)) :
            LET A == Entries(doc.solids)[i]
                B == Entries(doc.solids)[j]
            IN \A x \in 1..Len(Entries(A.v)) :
                   LET p == Entries(A.v)[x].k
                   IN (/\ Entries(A.v)[x].v = Str(B.k)
                       /\ HasOwn(B.v, p)
                       /\ p \notin {kShape, kClone}
                       /\ ~CycleFrom(A.k, p)) =>
                          Get(Out(A.k), p) = Get(Out(B.k), p)

\* C10 (witness): a.diameter names b, b.diameter is "c + 1" and c.diameter
\* is 2; resolution has finished and a.diameter is b's resolved value 3.
C10_ReferenceCopied ==
    /\ Done
    /\ doc \in DiameterDocs
    /\ Get(In(W("a")), kDiameter) = Name("b")
    /\ Get(In(W("b")), kDiameter) = PlusOne("c")
    /\ Get(In(W("c")), kDiameter) = Num(2)
    /\ Get(Out(W("a")), kDiameter) = Num(3)
    /\ Get(Out(W("b")), kDiameter) = Num(3)

ClonesReturn == pc = "clones" /\ Truthy(data.solids) /\ ~(hasChanges /\ pass < maxPasses)
CloneInput(n) == Get(data.solids, n)
CloneOutput(n) == Get(work, n)
KeySet(obj) == {Entries(obj)[i].k : i \in 1..Len(Entries(obj))}
\* Every number in v is finite: JSON writes v and reads the same value back.
RECURSIVE Writable(_)
Writable(v) ==
    CASE IsObj(v) -> \A i \in 1..Len(v.o) : Writable(v.o[i].v)
      [] IsArr(v) -> \A i \in 1..Len(v.a) : Writable(v.a[i])
      [] OTHER -> v.t \in {"num", "str", "bool", "null"}
\* T exists and the clone references starting at T end, within n steps, at
\* an existing solid that clones nothing.
RECURSIVE ChainResolves(_, _)
ChainResolves(T, n) ==
    /\ HasOwn(data.solids, T)
    /\ \/ ~Truthy(Get(CloneInput(T), kClone))
       \/ n > 0 /\ ChainResolves(ToStr(Get(CloneInput(T), kClone)), n - 1)
\* S clones a solid whose clone chain resolves.
ClonesResolved(S) ==
    /\ Truthy(Get(CloneInput(S), kClone))
    /\ ChainResolves(ToStr(Get(CloneInput(S), kClone)), Len(Entries(data.solids)))
\* S clones a solid whose clone chain resolves and, with the link from S,
\* has at most maxPasses links.
ClonesWithinBound(S) ==
    /\ Truthy(Get(CloneInput(S), kClone))
    /\ ChainResolves(ToStr(Get(CloneInput(S), kClone)), maxPasses - 1)
\* S wrote an empty shape and the solid T it clones has a shape.
EmptyShapeOverride(S, T, k) ==
    /\ k = kShape
    /\ ~Truthy(Get(CloneInput(S), kShape))
    /\ Truthy(Get(CloneOutput(T), kShape))

Evaluated(name, e) == evaluateMathExpression(e, kDiameter, doc.solids, name, 0, {}, 1)
\* The well-formed expressions of the documents and their values.
Arithmetic ==
    {<<Precedence, Num(14)>>, <<Grouping, Num(20)>>, <<LeftToRight, Num(5)>>,
     <<Fraction, Num(3)>>, <<Power, Num(8)>>, <<TimesTwo, Num(4)>>}
\* The expressions that are malformed, not finite, or hold a character
\* outside the whitelist after substitution.
NotArithmetic == {Disallowed, Dangling, Unclosed, ByZero, Unresolved, Padded}

\* C13 (as stated): evaluating a diameter string never raises and gives a
\* number or the string itself: the value of a well-formed expression
\* ("2 + 3 * 4" gives 14, "(2+3)*4" gives 20), and the original string when
\* it is malformed, not finite, or holds a character outside the whitelist.
C13_EvaluationNumberOrOriginal ==
    \A i \in 1..Len(Entries(doc.solids)) :
        LET name == Entries(doc.solids)[i].k
            e == Get(Entries(doc.solids)[i].v, kDiameter)
        IN IsStr(e) =>
               /\ ~IsRaise(Evaluated(name, e))
               /\ IsNum(Evaluated(name, e)) \/ Evaluated(name, e) = e
               /\ \A pair \in Arithmetic : e = pair[1] => Evaluated(name, e) = pair[2]
               /\ e \in NotArithmetic => Evaluated(name, e) = e

\* The solids that still have a clone key when resolveClones returns.
Pending == {n \in KeySet(work) : HasOwn(CloneOutput(n), kClone)}

\* C17 (as stated): when resolveClones returns after maxPasses passes, no
\* solid of its result has a clone property.
C17_PendingCloneRemoved ==
    ClonesReturn /\ pass >= maxPasses => Pending = {}

\* processStamps has just returned: data is its result for doc.
StampsExpanded == pc = "clones" /\ pass = 0
\* Some stamp definition of the document declares its shapes under "solids".
UsesLegacyKey(d) ==
    \E i \in 1..Len(Entries(d.stamps)) : HasOwn(Entries(d.stamps)[i].v, kSolids)
\* The document with "solids" written as "shapes" in every stamp definition.
Modern(d) ==
    [d EXCEPT !.stamps =
        Obj([i \in 1..Len(Entries(d.stamps)) |->
                [k |-> Entries(d.stamps)[i].k,
                 v |-> RenameKey(Entries(d.stamps)[i].v, kSolids, kShapes)]])]

\* C18 (as stated): a document whose stamp definitions declare their shapes
\* under "solids" is expanded into the same solids as the document that
\* declares them under "shapes".
C18_LegacySolidsExpandedAlike ==
    StampsExpanded /\ UsesLegacyKey(doc) => data.solids = processStamps(Modern(doc)).solids

\* The boolean operations of a solid of a document, as written.
BooleanOf(d, name) == Get(Get(Get(d.solids, name), kModifiers), kBoolean)
\* Host a has stamp instances of a definition that declares the parent
\* operation "difference: d".
HostInstances == Entries(Get(In(W("a")), kStamps))
ParentInjected ==
    /\ HostInstances # <<>>
    /\ Truthy(Get(Get(Get(Get(doc.stamps, kHole), kParent), kModifiers), kBoolean))
    /\ HasOwn(Get(doc.stamps, kHole), kShapes)
\* The host's own operations as a list, then the parent operation of each
\* instance with its target rewritten, in the order of the instances.
InjectedOperations ==
    normalizeBooleanOperations(BooleanOf(doc, W("a")))
    \o [i \in 1..Len(HostInstances) |->
           O(<< <<kDifference, Str(uniqueNameOf(W("a"), HostInstances[i].k, W("d")))>> >>)]

\* C19 (as stated): for a host with stamp instances of a definition with
\* parent operations, expansion does not fail and leaves the host with its
\* own operations, from the list or the grouped format, followed by the
\* rewritten parent operations in the order of the instances.
C19_ParentOperationsAppended ==
    ParentInjected =>
        /\ ~Failed
        /\ StampsExpanded => BooleanOf(data, W("a")) = Arr(InjectedOperations)

\* Instance c of host a, the shape d of its definition, and the solid the
\* expansion made of it.
InstanceC == Get(Get(In(W("a")), kStamps), W("c"))
ShapeD == Get(Get(Get(doc.stamps, kHole), kShapes), W("d"))
PlacedD == Get(data.solids, uniqueNameOf(W("a"), W("c"), W("d")))
\* The center of d after parameter substitution.
SubstitutedCenter ==
    substituteParameters(Get(ShapeD, kCenter),
                         buildParamMap(Get(doc.stamps, kHole),
                                       normalizeInstance(InstanceC).stampParams))
\* A component that is a number, or arithmetic over numbers only.
NumericComponent(v) ==
    \/ IsNum(v)
    \/ IsStr(v) /\ SafePattern(Trim(v.s)) /\ IsNum(EvalArithmetic(Trim(v.s)))
ComponentValue(v) == IF IsNum(v) THEN v ELSE EvalArithmetic(Trim(v.s))
\* Instance c is placed with a rotation that is not zero and d has a center.
RotatedInstance ==
    /\ IsObj(InstanceC)
    /\ IsArr(Get(InstanceC, kRotate))
    /\ \E i \in 1..3 : Get(InstanceC, kRotate).a[i] # Num(0)
    /\ IsArr(Get(ShapeD, kCenter))

\* C20 (as stated): for a rotated instance, a shape whose center components
\* are, after substitution, all numbers or arithmetic without a reference
\* gets the rotated and offset numeric center and keeps its own rotation;
\* otherwise its center keeps a string and the instance rotation is added to
\* its rotation.
C20_NumericCenterRotated ==
    StampsExpanded /\ RotatedInstance =>
        IF \A i \in 1..3 : NumericComponent(SubstitutedCenter.a[i])
        THEN /\ Get(PlacedD, kCenter) =
                    rotateCenter(Arr([i \in 1..3 |-> ComponentValue(SubstitutedCenter.a[i])]),
                                 Get(InstanceC, kRotate).a, Get(InstanceC, kAt).a)
             /\ Get(PlacedD, kRotation) = Get(ShapeD, kRotation)
        ELSE /\ \E i \in 1..3 : IsStr(Get(PlacedD, kCenter).a[i])
             /\ Get(PlacedD, kRotation) =
                    Arr([i \in 1..3 |->
                            NumAdd(OrZero(At(Get(ShapeD, kRotation), i)),
                                   Get(InstanceC, kRotate).a[i])])

\* The local shapes of the definition "hole".
LocalShapes == Get(Get(doc.stamps, kHole), kShapes)
\* An operation of a local shape as the expansion of instance i of host a
\* should leave it: a target that names a local shape becomes that shape's
\* unique name, any other target stays.
RewrittenOperation(i, op) ==
    LET first == Entries(op)[1]
    IN IF HasOwn(LocalShapes, ToStr(first.v))
       THEN O(<< <<first.k, Str(uniqueNameOf(W("a"), i, ToStr(first.v)))>> >>)
       ELSE op

\* C21 (as stated): in every shape expanded for an instance of host a, each
\* operation of a boolean list has its target replaced by the unique name of
\* the local shape it names, whatever the order of the local shapes, and is
\* left as it is when it names no local shape.
C21_LocalTargetsRewritten ==
    StampsExpanded /\ IsObj(LocalShapes) =>
        \A i \in 1..Len(HostInstances), l \in 1..Len(Entries(LocalShapes)) :
            LET written == Get(Get(Entries(LocalShapes)[l].v, kModifiers), kBoolean)
                placed == BooleanOf(data, uniqueNameOf(W("a"), HostInstances[i].k,
                                                      Entries(LocalShapes)[l].k))
            IN IsArr(written) =>
                   placed = Arr([j \in 1..Len(written.a) |->
                                    RewrittenOperation(HostInstances[i].k, written.a[j])])

\* The parameters the definition "hole" declares, without the leading "$".
DeclaredParams ==
    LET params == Get(Get(doc.stamps, kHole), kParams)
    IN [i \in 1..Len(params.a) |-> StripDollar(ToStr(params.a[i]))]
\* The values the instance c of host a supplies: its entries other than
\* "stamp", "at" and "rotate", in the order written.
SuppliedValues ==
    SelectSeq(Entries(Get(Get(In(W("a")), kStamps), W("c"))),
              LAMBDA e : e.k \notin {kStamp, kAt, kRotate})
\* The value the i-th declared parameter is bound to when every supplied
\* value counts: the value of the same name, else the value at position i,
\* else none (undefined).
BoundTo(i) ==
    LET named == SelectSeq(SuppliedValues, LAMBDA e : e.k = DeclaredParams[i])
    IN IF named # <<>> THEN named[1].v
       ELSE IF i <= Len(SuppliedValues) THEN SuppliedValues[i].v
       ELSE Undefined
\* The same when a null value counts as not supplied.
BoundToValue(i) == IF BoundTo(i) = Null THEN Undefined ELSE BoundTo(i)
\* The text "$p" after substitution of a binding.
Substituted(p, value) ==
    IF value = Undefined THEN Str(<<"$">> \o p)
    ELSE IF value = Null THEN Name("null")
    ELSE Str(ToStr(value))
\* The instance c of host a is an object over a definition with parameters
\* and the shape d, and has been expanded.
ParamsBound ==
    /\ StampsExpanded
    /\ IsObj(Get(Get(In(W("a")), kStamps), W("c")))
    /\ IsArr(Get(Get(doc.stamps, kHole), kParams))
    /\ Len(DeclaredParams) = 2
    /\ HasOwn(data.solids, uniqueNameOf(W("a"), W("c"), W("d")))
PlacedShape == Get(data.solids, uniqueNameOf(W("a"), W("c"), W("d")))

\* C22 (as stated): each declared parameter is bound to the instance value of
\* the same name if supplied, else to the supplied value at the parameter's
\* position, and its occurrences are left as written when it has neither.
C22_ParametersBound ==
    ParamsBound =>
        /\ Get(PlacedShape, kDiameter) = Substituted(DeclaredParams[1], BoundTo(1))
        /\ Get(PlacedShape, kHeight) = Substituted(DeclaredParams[2], BoundTo(2))

\* C22 (amended): the same, a supplied null counting as no value: the
\* parameter then gets no binding, by name or by position.
C22_NonNullParametersBound ==
    ParamsBound =>
        /\ Get(PlacedShape, kDiameter) = Substituted(DeclaredParams[1], BoundToValue(1))
        /\ Get(PlacedShape, kHeight) = Substituted(DeclaredParams[2], BoundToValue(2))

\* C22 (witness): $r was bound by position to the value of the key h, and
\* $h by name to the same value.
C22_BoundByPosition ==
    /\ ParamsBound
    /\ Len(SuppliedValues) = 1 /\ SuppliedValues[1].k = W("h")
    /\ HasOwn(Get(Get(In(W("a")), kStamps), W("c")), kAt)
    /\ Get(PlacedShape, kDiameter) = Name("5")
    /\ Get(PlacedShape, kHeight) = Name("5")

\* C23: reference resolution makes at most 10 passes; a further pass is made
\* only after a pass that changed some property value, so the loop stops
\* after the first pass that changes nothing; and when the tenth pass still
\* changed something the document is returned with the solids as the tenth
\* pass left them, without an error.
C23_ReferencePassesBounded ==
    /\ [](pc = "refs" => pass \in 0..10)
    /\ [][pc = "refs" /\ pc' = "refs" =>
              /\ pass' = pass + 1
              /\ hasChanges' = (work' # work)]_vars
    /\ [][pc = "refs" /\ pass > 0 /\ ~hasChanges => pc' = "done" /\ data'.solids = work]_vars
    /\ [][pc = "refs" /\ pass = 10 /\ hasChanges => pc' = "done" /\ data'.solids = work]_vars

\* C23 (witness): the reference loop has made its tenth pass and that pass
\* still changed a value.
C23_TenthPassChanged == pc = "refs" /\ pass = 10 /\ hasChanges

\* C24 (as stated): when element i of the array A.p is the name of a solid B
\* and B.p is defined but has no element at index i (a shorter array or not
\* an array), then once resolution has finished A.p[i] is B's whole resolved p.
C24_MissingIndexTakesWhole ==
    Done =>
        \A x, y \in 1..Len(Entries(doc.solids)) :
            LET A == Entries(doc.solids)[x]
                B == Entries(doc.solids)[y]
            IN \A q \in 1..Len(Entries(A.v)) :
                   LET p == Entries(A.v)[q].k
                       Ap == Entries(A.v)[q].v
                       Bp == Get(B.v, p)
                   IN \A i \in 1..(IF IsArr(Ap) THEN Len(Ap.a) ELSE 0) :
                          (/\ Ap.a[i] = Str(B.k)
                           /\ HasOwn(B.v, p)
                           /\ ~(IsArr(Bp) /\ i <= Len(Bp.a))) =>
                              /\ IsArr(Get(Out(A.k), p))
                              /\ Get(Out(A.k), p).a[i] = Get(Out(B.k), p)


\* C24 (amended): the same when the references of A.p do not lead into a
\* cycle of references.
C24_MissingIndexTakesWholeAcyclic ==
    Done =>
        \A x, y \in 1..Len(Entries(doc.solids)) :
            LET A == Entries(doc.solids)[x]
                B == Entries(doc.solids)[y]
            IN \A q \in 1..Len(Entries(A.v)) :
                   LET p == Entries(A.v)[q].k
                       Ap == Entries(A.v)[q].v
                       Bp == Get(B.v, p)
                   IN \A i \in 1..(IF IsArr(Ap) THEN Len(Ap.a) ELSE 0) :
                          (/\ Ap.a[i] = Str(B.k)
                           /\ HasOwn(B.v, p)
                           /\ ~(IsArr(Bp) /\ i <= Len(Bp.a))
                           /\ ~CycleFrom(A.k, p)
                           /\ ~hasMathOperators(Get(Out(B.k), p))) =>
                              /\ IsArr(Get(Out(A.k), p))
                              /\ Get(Out(A.k), p).a[i] = Get(Out(B.k), p)


\* C24 (witness): a.center is [0, 0, b] and b.center is the one-element
\* array [7]; resolution has finished and a.center is [0, 0, [7]].
C24_ShortArrayTaken ==
    /\ Done
    /\ Get(In(W("a")), kCenter) = ZElem(Name("b"))
    /\ Get(In(W("b")), kCenter) = Arr(<<Num(7)>>)
    /\ Get(Out(W("a")), kCenter) = ZElem(Arr(<<Num(7)>>))


\* The string v, written in property p, names no solid of S, or names a
\* solid of S that has no property p of its own.
Unresolvable(S, v, p) ==
    /\ IsStr(v) /\ ~hasMathOperators(v)
    /\ HasOwn(S, v.s) => ~HasOwn(Get(S, v.s), p)
\* Some property value of S, or some element of one, is an arithmetic string.
HasArithmetic(S) ==
    \E x \in 1..Len(Entries(S)) : \E q \in 1..Len(Entries(Entries(S)[x].v)) :
        LET v == Entries(Entries(S)[x].v)[q].v
        IN hasMathOperators(v) \/ (IsArr(v) /\ \E i \in 1..Len(v.a) : hasMathOperators(v.a[i]))
\* Every unresolvable string of S, a whole property or an element of an
\* array, is the same in R.
UnresolvableKept(S, R) ==
    \A x \in 1..Len(Entries(S)) : \A q \in 1..Len(Entries(Entries(S)[x].v)) :
        LET A == Entries(S)[x].k
            p == Entries(Entries(S)[x].v)[q].k
            v == Entries(Entries(S)[x].v)[q].v
        IN /\ Unresolvable(S, v, p) => Get(Get(R, A), p) = v
           /\ IsArr(v) =>
                  \A i \in 1..Len(v.a) :
                      Unresolvable(S, v.a[i], p) => At(Get(Get(R, A), p), i) = v.a[i]

\* C25 (as stated): a string that names no solid, or a solid without the
\* same-named property, is in the document reference resolution returns as
\* it was in the document it received, whole property or array element, and
\* resolution does not fail on a document without arithmetic strings.
C25_UnresolvableKept ==
    /\ [][pc = "refs" /\ pc' = "done" => UnresolvableKept(data.solids, data'.solids)]_vars
    /\ [][pc = "refs" /\ ~HasArithmetic(data.solids) => pc' # "failed"]_vars


\* C26: parseYAML leaves its input as it was: whenever it has returned or
\* thrown, the solids and the stamp definitions of the input document equal
\* the ones it was given, and a solids map it returns is not the object the
\* input holds.
C26_InputNotMutated ==
    pc \in {"done", "failed"} =>
        /\ input.solids = doc.solids
        /\ input.stamps = doc.stamps
        /\ Done /\ IsObj(data.solids) => ~sharedSolids

\* C26 (witness): a document without stamps whose solid a clones b has been
\* resolved; the returned a has b's diameter and no clone, the input's a still
\* has its clone and nothing else.
C26_CloneResolvedInCopy ==
    /\ Done
    /\ doc.stamps = Undefined
    /\ Get(input.solids, W("a")) = O(<< <<kClone, Name("b")>> >>)
    /\ Get(Out(W("a")), kDiameter) = Num(2)
    /\ ~HasOwn(Out(W("a")), kClone)
    /\ ~sharedSolids


\* The boolean operations of solid name in the solids map S are an ordered
\* list of single-key records whose targets are names of solids of S.
ListOfTargets(S, name) ==
    LET ops == Get(Get(Get(S, name), kModifiers), kBoolean)
    IN /\ IsArr(ops) /\ ops.a # <<>>
       /\ \A i \in 1..Len(ops.a) :
              /\ IsObj(ops.a[i]) /\ Len(Entries(ops.a[i])) = 1
              /\ IsStr(Entries(ops.a[i])[1].v)
              /\ HasOwn(S, Entries(ops.a[i])[1].v.s)

\* C27: reference resolution returns every ordered list of boolean
\* operations as it received it, although each target is the name of an
\* existing solid.
C27_BooleanTargetsKept ==
    [][pc = "refs" /\ pc' = "done" =>
          \A i \in 1..Len(Entries(data.solids)) :
              LET name == Entries(data.solids)[i].k
              IN ListOfTargets(data.solids, name) =>
                     BooleanOf(data', name) = BooleanOf(data, name)]_vars

\* C27 (witness): a subtracts b and adds c in a list, b has a property
\* "difference" of its own, and the resolved a has the same list.
C27_TargetsOfListKept ==
    /\ Done
    /\ doc \in BooleanTargetDocs
    /\ HasOwn(In(W("b")), kDifference)
    /\ ListOfTargets(doc.solids, W("a"))
    /\ BooleanOf(data, W("a")) = BooleanOf(doc, W("a"))

-----------------------------------------------------------------------------
(* Declaration order (yamlParser.js, resolveClones and resolveAllReferences) *)

\* The most solids a document has when every declaration order is tried.
MaxPermuted == 3

\* resolveClones, lines 559-640: the while loop from its start to its return
RECURSIVE cloneLoop(_, _, _, _)
cloneLoop(resolvedSolids, todoClones, passes, changed) ==
    IF changed /\ passes < maxPasses
    THEN LET r == clonePass(resolvedSolids, todoClones)
         IN cloneLoop(r.solids, todoClones, passes + 1, r.hasChanges)
    ELSE resolvedSolids
resolveClones(solids) ==
    IF ~Truthy(solids) THEN solids
    ELSE cloneLoop(deepClone(solids), clonesToProcess(solids), 0, TRUE)

\* resolveAllReferences, lines 646-701: the while loop from its start to its
\* return
RECURSIVE referenceLoop(_, _, _)
referenceLoop(resolvedSolids, passes, changed) ==
    IF IsRaise(resolvedSolids) THEN Raise
    ELSE IF changed /\ passes < maxPasses
    THEN LET r == referencePass(resolvedSolids)
         IN referenceLoop(r.solids, passes + 1, r.hasChanges)
    ELSE resolvedSolids
resolveAllReferences(solids) ==
    IF ~Truthy(solids) THEN solids
    ELSE referenceLoop(deepClone(solids), 0, TRUE)

\* The solids of a document after clone resolution followed by reference
\* resolution.
ResolvedSolids(solids) == resolveAllReferences(resolveClones(solids))

\* The orders in which n solids can be declared, and the solids declared in
\* one of them.
Orders(n) == {p \in [1..n -> 1..n] : \A i, j \in 1..n : p[i] = p[j] => i = j}
DeclaredIn(solids, p) == Obj([i \in 1..Len(p) |-> solids.o[p[i]]])

\* The number of clone links from the solid called name to a solid that
\* clones nothing or does not exist; more than maxPasses when there is no end
\* within maxPasses links.
RECURSIVE CloneDepth(_, _, _)
CloneDepth(solids, name, fuel) ==
    IF ~HasOwn(solids, name) \/ ~Truthy(Get(Get(solids, name), kClone)) THEN 0
    ELSE IF fuel = 0 THEN 1
    ELSE 1 + CloneDepth(solids, ToStr(Get(Get(solids, name), kClone)), fuel - 1)
ChainsWithinBound(solids) ==
    \A n \in KeySet(solids) : CloneDepth(solids, n, maxPasses) <= maxPasses

\* Two results give every solid the same properties with the same values.
SameValues(R1, R2) ==
    IF IsRaise(R1) \/ IsRaise(R2) THEN R1 = R2
    ELSE /\ KeySet(R1) = KeySet(R2)
         /\ \A n \in KeySet(R1) :
                /\ KeySet(Get(R1, n)) = KeySet(Get(R2, n))
                /\ \A k \in KeySet(Get(R1, n)) : Get(Get(R1, n), k) = Get(Get(R2, n), k)

\* A document without stamps, with solids, whose clone chains are no deeper
\* than the pass bound, has been resolved or has failed.
Permutable ==
    /\ pc \in {"done", "failed"}
    /\ ~Truthy(doc.stamps)
    /\ IsObj(doc.solids)
    /\ Len(doc.solids.o) <= MaxPermuted
    /\ ChainsWithinBound(doc.solids)

\* C30: for a document without stamps whose clone chains are no deeper than
\* the pass bound, declaring the solids in any other order gives every solid
\* and property the same value after clone resolution followed by reference
\* resolution (and fails when the document as declared fails).
C30_DeclarationOrderIrrelevant ==
    Permutable =>
        \A p \in Orders(Len(doc.solids.o)) :
            SameValues(IF Failed THEN Raise ELSE data.solids,
                       ResolvedSolids(DeclaredIn(doc.solids, p)))

-----------------------------------------------------------------------------
(* Properties of renderModel *)

\* A render of a resolved document has run to its end.
Rendered == rpc = "idle" /\ renders > 0 /\ pc = "done"
\* The first pass of the current render has run.
Collected == rpc \in {"create", "hide", "finish"} \/ (Rendered /\ Truthy(rdata.solids))
RenderNames == {Entries(rdata.solids)[i].k : i \in 1..Len(Entries(rdata.solids))}
\* The boolean operations of solid n, one record per target.
Operations(n) ==
    LET modifiers == Get(Get(rdata.solids, n), kModifiers)
    IN IF Truthy(modifiers) /\ Truthy(Get(modifiers, kBoolean))
       THEN normalizeBooleanOperations(Get(modifiers, kBoolean))
       ELSE <<>>
OperationOf(operation) ==
    [op |-> Entries(operation)[1].k, target |-> ToStr(Entries(operation)[1].v)]
\* The existing solids named in n's boolean list.
Targets(n) == {OperationOf(Operations(n)[i]).target : i \in 1..Len(Operations(n))}
                  \cap RenderNames
\* The existing solids n's boolean list names directly or transitively.
RECURSIVE DependsSet(_)
DependsSet(S) ==
    LET more == S \cup UNION {Targets(x) : x \in S}
    IN IF more = S THEN S ELSE DependsSet(more)
DependsOn(n) == DependsSet(Targets(n))
OnBooleanCycle(n) == n \in DependsOn(n)
\* The operations of n that a complete build of n applies: those with a
\* CSG operator on a name the solids map answers to (a solid, or a member
\* every object inherits), in the order of the list.
ExpectedOps(n) ==
    LET all == [i \in 1..Len(Operations(n)) |-> OperationOf(Operations(n)[i])]
    IN SelectSeq(all, LAMBDA o : /\ o.target \in RenderNames \cup ObjectPrototypeKeys
                                 /\ o.op \in CsgOperations)
Visible(n) == Get(Get(rdata.solids, n), kVisible)
Displayed == {models[i].name : i \in 1..Len(models)} \cup {m.name : m \in scene}

C8_VisibleDependencyHidden ==
    Rendered =>
        \A n \in usedAsDependencies : Visible(n) = Bool(TRUE) => n \notin Displayed

\* C8 (as stated): a solid in the used-as-dependency set that is marked
\* visible: true is displayed after a successful render.
C8_VisibleDependencyShown ==
    (Rendered /\ ~Truthy(rdata.final)) =>
        \A n \in usedAsDependencies : Visible(n) = Bool(TRUE) => n \in Displayed

\* C8 (witness): a render without a final section has ended, b is marked
\* visible: true and is used as a dependency, a is displayed and b is not.
C8_VisibleDependencyRemoved ==
    /\ Rendered
    /\ ~Truthy(rdata.final)
    /\ W("b") \in usedAsDependencies
    /\ Visible(W("b")) = Bool(TRUE)
    /\ W("a") \in Displayed
    /\ W("b") \notin Displayed

\* C9: every existing solid that some solid's boolean list names directly
\* or transitively and that is not marked visible: true is in the
\* used-as-dependency set once the first pass has run, and is not displayed
\* after a successful render.
C9_DependenciesCollectedAndHidden ==
    Collected =>
        \A s \in RenderNames : \A n \in DependsOn(s) :
            Visible(n) # Bool(TRUE) =>
                /\ n \in usedAsDependencies
                /\ Rendered => n \notin Displayed

\* C9 (witness): a names b, b names c, neither b nor c is marked visible;
\* the render has ended with a displayed and b and c not.
C9_TransitiveDependencyHidden ==
    /\ Rendered
    /\ ~Truthy(rdata.final)
    /\ Targets(W("a")) = {W("b")}
    /\ Targets(W("b")) = {W("c")}
    /\ Targets(W("c")) = {}
    /\ Visible(W("b")) = Undefined
    /\ Visible(W("c")) = Undefined
    /\ {W("b"), W("c")} \subseteq usedAsDependencies
    /\ Displayed = {W("a")}

\* collectDependencies(A, solids) on the document being rendered.
DependenciesOf(A) == collectDependencies(Get(rdata.solids, A), rdata.solids, NoDependencies)

\* C14 (as stated): when A's boolean list names B and B's names C, in the
\* list or the grouped format, collectDependencies(A) contains B and C, and
\* it contains no name that is not a solid.
C14_DependenciesTransitive ==
    rdata # Undefined =>
        \A A \in RenderNames :
            /\ \A B \in Targets(A) :
                   /\ B \in Range(DependenciesOf(A).names)
                   /\ \A C \in Targets(B) : C \in Range(DependenciesOf(A).names)
            /\ Range(DependenciesOf(A).names) \subseteq RenderNames

\* No solid of the map has a clone key.
NoClone(solids) == \A n \in KeySet(solids) : ~HasOwn(Get(solids, n), kClone)

\* C15 (amended): for a solids map in which no solid has a clone key and
\* every number is finite, resolveClones returns a map structurally equal to
\* its input.
C15_CloneFreeMapUnchanged ==
    ClonesReturn /\ NoClone(data.solids) /\ Writable(data.solids) => work = data.solids

\* C15 (as stated): for any solids map in which no solid has a clone key,
\* resolveClones returns a map structurally equal to its input.
C15_CloneFreeMapEqual ==
    ClonesReturn /\ NoClone(data.solids) => work = data.solids

\* C15 (witness): a map without clone whose solid a has a center array with
\* a reference in it comes back equal.
C15_CenterMapReturned ==
    /\ ClonesReturn
    /\ NoClone(data.solids)
    /\ IsArr(Get(CloneInput(W("a")), kCenter))
    /\ \E i \in 1..3 : IsStr(At(Get(CloneInput(W("a")), kCenter), i))
    /\ work = data.solids

-----------------------------------------------------------------------------
(* Properties of exportSTL *)

\* The preset of the quality the user selected.
SelectedPreset == Get(QUALITY_PRESETS, ToStr(currentQuality))
\* exportSTL has just finished: nothing has happened since its last render.
ExportFinished == xpc = "idle" /\ rendered.by = "restore"

\* C16: the render exportSTL does for the export reads 256 segments whatever
\* quality is selected; while exportSTL runs the selected quality is the one
\* it found; once the override is cleared, on the normal and on the error
\* path, and after exportSTL has finished, no override is set, the selected
\* quality is still the one exportSTL found and getSegmentCount() returns
\* its preset.
C16_ExportUltraThenRestored ==
    /\ rendered.by = "export" => rendered.segments = Num(256)
    /\ xpc # "idle" => currentQuality = originalQuality
    /\ xpc \in {"finally", "idle"} =>
           /\ forceQuality = Null
           /\ getSegmentCount = SelectedPreset
    /\ ExportFinished =>
           /\ currentQuality = originalQuality
           /\ rendered.segments = SelectedPreset

\* C16 (witness): an export with quality medium selected has finished; the
\* viewport is rendered with 64 segments again.
C16_MediumRestored ==
    /\ ExportFinished
    /\ currentQuality = Name("medium")
    /\ forceQuality = Null
    /\ getSegmentCount = Num(64)
    /\ rendered.segments = Num(64)

\* C28 (as stated): on every boolean graph, cyclic ones included,
\* collectDependencies(A) returns, and the names it returns are exactly the
\* existing solids reached from A through one or more boolean operations; A
\* itself is among them exactly when A lies on a cycle.
C28_DependenciesExactlyReachable ==
    rdata # Undefined /\ IsObj(rdata.solids) =>
        \A A \in RenderNames :
            /\ ~DependenciesOf(A).thrown
            /\ Range(DependenciesOf(A).names) = DependsOn(A)
            /\ Len(DependenciesOf(A).names) = Cardinality(DependsOn(A))
            /\ A \in Range(DependenciesOf(A).names) <=> OnBooleanCycle(A)


\* C29 (as stated): whenever no render is running, after renders that
\* succeeded, failed in parsing or failed while a solid was being created, the
\* meshes in the scene are the meshes of the tracked model list.
C29_SceneIsModelList == rpc = "idle" => scene = Range(models)

==============================================================================
